---------------------------- MODULE Spec2Model ----------------------------
(***************************************************************************)
(* Process supervision of the OxichStudio Electron shell.                  *)
(*                                                                         *)
(* The supervisor (startNextJsServer / stopNextJsServer / getServerStatus  *)
(* of the main process, src/unnamed/part_004), the health monitor          *)
(* (src/electron/utils/ServerMonitor.js), the error handler                *)
(* (src/electron/utils/ErrorHandler.js) and the port helper                *)
(* (src/electron/utils/NetworkManager.js) run on one event loop.  Every    *)
(* `await` is a suspension point: an async handler is modelled as the      *)
(* sequence of its synchronous segments, one action per segment, so that   *)
(* timers, child-process events and user requests interleave between them. *)
(***************************************************************************)
EXTENDS Integers, Sequences, FiniteSets, TLC

(***************************************************************************)
(* Bounds of the model.                                                    *)
(***************************************************************************)
MaxStarts == 2        \* start() calls issued in one behaviour
MaxCount == 3         \* alternative ports asked for
MaxAdds == 2          \* records added to the error history
MaxWords == 2         \* words in the message of an error
MaxStops == 2         \* stop() calls issued in one behaviour
MaxStatus == 1        \* getServerStatus() calls issued in one behaviour
MaxCrashSignals == 2  \* 'server-crashed' events delivered in one behaviour
MaxTicks == 5         \* ticks of the health poll timers in one behaviour
MaxInFlight == 2      \* health checks awaiting their answer at one time
MaxMonitorStarts == 2 \* startMonitoring calls in one behaviour
MaxMonitorStops == 2  \* stopMonitoring calls in one behaviour
MaxInterfaces == 2    \* network interfaces of the machine
MaxErrors == 4        \* handleError calls in one behaviour
MaxClears == 1        \* clearErrorHistory calls in one behaviour
MaxRecovering == 2    \* recovery strategies in progress at one time
MaxPortChanges == 1   \* port errors handled beside a running child
MaxConfigCalls == 5   \* ConfigManager calls in one behaviour

(***************************************************************************)
(* Program constants.                                                      *)
(***************************************************************************)
DefaultPort == 8080   \* configManager.get('server.port', 8080)

Attempts == 1..MaxStarts
NoProcess == 0        \* nextJsProcess === null

VARIABLES
  configPort,     \* configManager 'server.port'
  serverPort,     \* module variable serverPort
  nextJsProcess,  \* module variable nextJsProcess: NoProcess or a child
  child,          \* the spawned children, as the operating system sees them
  att,            \* one closure of startNextJsServer per start() call
  mon,            \* the ServerMonitor instance
  busy,           \* ports on which a process not spawned here listens
  stop,           \* the stopNextJsServer call in progress
  stopsLeft,      \* stop() calls still to be issued
  status,         \* the getServerStatus call in progress and its result
  statusLeft,     \* getServerStatus() calls still to be issued
  crashed,        \* number of 'server-crashed' events emitted so far
  restart,        \* the auto-restart listener of 'server-crashed'
  hc,             \* the health checks of the monitor that are in progress
  eh,             \* the ErrorHandler instance and its calls in progress
  cfg,            \* ConfigManager: defaultConfig and its aliasing
  call            \* one call of a function of the utility classes:
                  \* its arguments and, once it is made, what it gave;
                  \* root: the process may bind the ports below 1024;
                  \* win32: process.platform is 'win32'

vars == <<configPort, serverPort, nextJsProcess, child, att, mon, busy,
          stop, stopsLeft, status, statusLeft, crashed, restart, hc, eh, cfg,
          call>>

\* What only the specifications of single function calls write.
pure == <<call>>

\* What the supervisor itself never writes.
aux == <<crashed, restart, hc, eh, cfg, pure>>

(***************************************************************************)
(* The environment: who listens on a port.                                 *)
(***************************************************************************)
ChildListens(c, p) ==
  child[c].st = "alive" /\ child[c].up /\ child[c].port = p

Listening(p) == p \in busy \/ \E c \in Attempts : ChildListens(c, p)

\* A port below 1024 cannot be bound by a process without the right to
\* (requiresAdminPrivileges, NetworkManager.js line 244).
Denied(p) == p \in 1..1023 /\ ~call.root

\* server.listen(port) throws ERR_SOCKET_BAD_PORT, inside the executor of
\* the promise of isPortAvailable, for a port that is not in 0..65535.
listenThrows(p) == p \notin 0..65535

\* NetworkManager.isPortAvailable for a port that listen() accepts: a
\* bind followed by a release; the bind fails ('error', line 62) when the
\* port is held or denied.
isPortAvailable(p) == ~Listening(p) /\ ~Denied(p)

(***************************************************************************)
(* ServerMonitor, as state transformers on the monitor record.             *)
(***************************************************************************)
\* Durations are counted in half milliseconds, so that the back-off
\* factor 1.5 keeps them integral.
Ms(x) == 2 * x

maxRetries == 3

MonitorInit ==
  [isMonitoring |-> FALSE,
   monitorInterval |-> 0,          \* 0: null, else the period of the timer
   healthCheckInterval |-> Ms(5000),
   retryCount |-> 0,
   serverProcess |-> NoProcess,
   serverPort |-> 0,
   requestCount |-> 0,             \* performanceMetrics.requestCount
   errorCount |-> 0,               \* performanceMetrics.errorCount
   uptime |-> 0,                   \* performanceMetrics.uptime: 0, or 1
   responseTime |-> 0,             \* for a time that was measured
   warmups |-> 0,                  \* pending 8s warm-up timeouts
   leaked |-> 0]                   \* interval timers no field refers to

\* stopMonitoring() without the clearInterval of lines 92-95.
stopMonitoringKeepsTimer(m) ==
  IF ~m.isMonitoring THEN m
  ELSE [m EXCEPT !.isMonitoring = FALSE]

\* stopMonitoring()
stopMonitoring(m) ==
  IF ~m.isMonitoring THEN m
  ELSE [m EXCEPT !.isMonitoring = FALSE, !.monitorInterval = 0]

\* startMonitoring(serverProcess, port) up to the registration of the
\* process listeners (lines 34-68).
startMonitoring(m, proc, port) ==
  LET m1 == IF m.isMonitoring THEN stopMonitoring(m) ELSE m
  IN [m1 EXCEPT !.serverProcess = proc, !.serverPort = port,
                !.isMonitoring = TRUE, !.retryCount = 0,
                !.warmups = @ + 1]

\* The supervisor passes nextJsProcess.pid, a number, as serverProcess;
\* serverProcess.on(...) (line 72) is then a call of undefined and throws
\* a TypeError after the state above has been set.
startMonitoringThrows(proc) == proc # NoProcess

(***************************************************************************)
(* Initial state.                                                          *)
(***************************************************************************)
\* The closure of one startNextJsServer call.
\*   pc         position of the body: idle, called, env, conflict,
\*              spawned (the listeners are registered), failed
\*   promise    none, pending, resolved, rejected
\*   timeout    serverStartupTimeout: none, armed, cleared, fired
\*   poll       the polling of lines 333-343: none, delay (3s timer
\*              pending), on (interval ticking), off (cleared or never set)
\*   pollChk    the health check called by the interval: none, fetch, log
\*   out        the stdout listener: none, grace (1s timer pending), fetch,
\*              plog and flog (awaiting the log entry of the health check,
\*              of the fallback), done
\*   ready      isResolved was set by a readiness signal
\*   overlap    the call was made while another start was pending or a
\*              handle was tracked
AttInit ==
  [pc |-> "idle", overlap |-> FALSE, envPort |-> 0, isResolved |-> FALSE, promise |-> "none",
   why |-> "none", timeout |-> "none", poll |-> "none", pollChk |-> "none",
   pollPort |-> 0, out |-> "none", outPort |-> 0, ready |-> FALSE]

\* A child process.  st: none, alive, dead (terminated, 'exit' not yet
\* delivered), clog (exit listener awaiting its log entry), gone.
ChildInit == [st |-> "none", up |-> FALSE, port |-> 0, killed |-> FALSE]

\* What the stop() calls have left running (lines 553-610):
\*   forced     the netstat processes spawned, one for each attempt to
\*              terminate the owner of the port
\*   netstat    the netstat processes that have not closed yet
\*   taskkill   the pids (and, for a foreign process, the port it holds)
\*              of the taskkill processes that have not closed yet
\*   timers     the 3 s timers pending
\*   recheck    the getServerStatus call of a timer: none, fetch
\*   final      the last entry a timer has logged: none, warned, stopped
AfterInit == [forced |-> 0, netstat |-> 0, taskkill |-> {}, timers |-> 0,
              recheck |-> "none", port |-> 0, final |-> "none"]

StopInit == [pc |-> "none", port |-> 0, tracked |-> FALSE, handle |-> NoProcess,
             answered |-> FALSE, done |-> FALSE,
             calls |-> 0, after |-> AfterInit]

External == -1        \* the pid marker 'external'

StatusInit == [pc |-> "none", processRunning |-> FALSE, port |-> 0,
               answer |-> "none", running |-> FALSE, pid |-> NoProcess,
               st |-> "none"]

\* The auto-restart listener: the value of 'server.autoStart', the
\* 'server-crashed' events still to be delivered, the 7s cooldown timers
\* that are pending and the start() calls made by a cooldown.
RestartInit == [autoStart |-> TRUE, signalsLeft |-> MaxCrashSignals,
                cooldowns |-> 0, started |-> {}]

\* The health checks in progress: performHealthCheck calls awaiting their
\* HTTP answer, handleHealthCheckFailure calls suspended at their first
\* and at their second log entry; the 'server-unhealthy' events emitted,
\* the times retryCount has reached maxRetries, and the
\* 'monitoring-stopped' events emitted.
HcInit == [probes |-> 0, warned |-> 0, escalated |-> 0, unhealthy |-> 0,
           crossings |-> 0, ticksLeft |-> MaxTicks,
           startsLeft |-> MaxMonitorStarts,
           stopsLeft |-> MaxMonitorStops, stopped |-> 0]

\* The categories of categorizeError (ErrorHandler.js lines 66-101).
Categories == {"network", "system", "port", "validation", "configuration",
               "server", "generic"}

\* The ErrorHandler: recoveryAttempts (0: no entry), the recovery
\* attempts made so far in the order of their cap checks, the warnings
\* 'Maximum recovery attempts reached' logged, the calls of addToHistory
\* made, the 'error-occurred' events emitted and the
\* 'port-changed-automatically' events emitted.
EhInit == [recoveryAttempts |-> [t \in Categories |-> 0],
           log |-> <<>>, warnings |-> 0, recorded |-> 0, emitted |-> 0,
           signals |-> <<>>,
           errorsLeft |-> MaxErrors, clearsLeft |-> MaxClears]

\* ConfigManager: the port held by defaultConfig.server, and whether
\* config.server is that very object (config is a shallow copy of
\* defaultConfig after a first run or a reset, part_000 lines 56 and 184).
CfgInit == [defaultPort |-> DefaultPort, aliased |-> FALSE]

InitSupervisor ==
  /\ configPort = DefaultPort
  /\ serverPort = DefaultPort
  /\ nextJsProcess = NoProcess
  /\ child = [c \in Attempts |-> ChildInit]
  /\ att = [a \in Attempts |-> AttInit]
  /\ mon = MonitorInit
  /\ stop = StopInit
  /\ stopsLeft = MaxStops
  /\ status = StatusInit
  /\ statusLeft = MaxStatus
  /\ crashed = 0
  /\ hc = HcInit
  /\ eh = EhInit

\* No function call is under study.
CallInit == [op |-> "none", root |-> FALSE, win32 |-> FALSE]

Init ==
  /\ InitSupervisor
  /\ busy \in {{}, {DefaultPort}}
  /\ cfg = CfgInit
  /\ restart = RestartInit
  /\ call = CallInit

(***************************************************************************)
(* Helpers of the closure of one start() call.                             *)
(***************************************************************************)
\* resolve()/reject() settle a promise once; later calls are ignored.
Settle(p, v) == IF p = "pending" THEN v ELSE p

\* clearTimeout(serverStartupTimeout)
ClearTimeout(t) == IF t = "armed" THEN "cleared" ELSE t

\* if (healthCheckInterval) clearInterval(healthCheckInterval)
ClearPoll(p) == IF p = "on" THEN "off" ELSE p

\* ChildProcess.kill(): the signal is sent, and killed set, unless the
\* exit of the child has already been delivered.
KillChild(ch, h) ==
  IF h # NoProcess /\ ch[h].st \in {"alive", "dead"}
  THEN [ch EXCEPT ![h].killed = TRUE]
  ELSE ch

\* Whether a request to port p can be answered at all.
CanAnswer(ok, p) == ok => Listening(p)

(***************************************************************************)
(* startNextJsServer: from the call to the spawn.                          *)
(***************************************************************************)
\* Lines 189-219: startNextJsServer is entered.  The configuration is
\* re-read; nothing is checked about a handle that is already tracked.
startNextJsServer(a) ==
  /\ att[a].pc = "idle"
  /\ \A b \in Attempts : b < a => att[b].pc # "idle"
  /\ serverPort' = configPort
  /\ att' = [att EXCEPT
               ![a].pc = "called", ![a].promise = "pending",
               ![a].overlap = \/ nextJsProcess # NoProcess
                              \/ \E b \in Attempts :
                                   att[b].promise = "pending"]
  /\ UNCHANGED <<configPort, nextJsProcess, child, mon, busy, stop,
                 stopsLeft, status, statusLeft>>

\* The user asks for a start (IPC server:start, lines 1072-1117, or the
\* tray menu).
StartCall(a) ==
  /\ startNextJsServer(a)
  /\ UNCHANGED aux

\* Lines 223-257: the availability probe of the current serverPort.  A
\* free port: the environment of the child is built from serverPort.  An
\* occupied port: the warning is logged (line 225).
PortCheck(a) ==
  /\ att[a].pc = "called"
  /\ att' = [att EXCEPT
               ![a].pc = IF isPortAvailable(serverPort) THEN "env"
                         ELSE "conflict",
               ![a].envPort = IF isPortAvailable(serverPort)
                              THEN serverPort ELSE 0]
  /\ UNCHANGED <<configPort, serverPort, nextJsProcess, child, mon, busy,
                 stop, stopsLeft, status, statusLeft, aux>>

\* Lines 231 and 508-515: networkManager.findAvailablePorts is not a
\* method of NetworkManager (it has findAvailablePort and
\* suggestAlternativePorts), so the call throws a TypeError; the catch of
\* the start body rejects with the 'unexpected error' message.
PortConflict(a) ==
  /\ att[a].pc = "conflict"
  /\ att' = [att EXCEPT ![a].pc = "failed", ![a].promise = "rejected",
                        ![a].why = "unexpected"]
  /\ UNCHANGED <<configPort, serverPort, nextJsProcess, child, mon, busy,
                 stop, stopsLeft, status, statusLeft, aux>>

\* Lines 264-506: the child is spawned and becomes the tracked handle,
\* whatever the handle was; the startup timeout, the polling delay and
\* the listeners are registered.
Spawn(a) ==
  /\ att[a].pc = "env"
  /\ nextJsProcess' = a
  /\ child' = [child EXCEPT ![a] = [st |-> "alive", up |-> FALSE,
                                    port |-> att[a].envPort,
                                    killed |-> FALSE]]
  /\ att' = [att EXCEPT ![a].pc = "spawned", ![a].timeout = "armed",
                        ![a].poll = "delay"]
  /\ UNCHANGED <<configPort, serverPort, mon, busy, stop, stopsLeft,
                 status, statusLeft, aux>>

(***************************************************************************)
(* startNextJsServer: the timers registered at the spawn.                  *)
(***************************************************************************)
\* Lines 319-330: serverStartupTimeout fires (30s; the 3s polling delay
\* has fired before).  It kills and clears whatever nextJsProcess is.
TimeoutFire(a) ==
  /\ att[a].timeout = "armed"
  /\ att[a].poll # "delay"
  /\ IF ~att[a].isResolved
     THEN /\ att' = [att EXCEPT ![a].timeout = "fired",
                                ![a].isResolved = TRUE,
                                ![a].poll = ClearPoll(@),
                                ![a].promise = Settle(@, "rejected"),
                                ![a].why = "timeout"]
          /\ child' = KillChild(child, nextJsProcess)
          /\ nextJsProcess' = NoProcess
     ELSE /\ att' = [att EXCEPT ![a].timeout = "fired"]
          /\ UNCHANGED <<child, nextJsProcess>>
  /\ UNCHANGED <<configPort, serverPort, mon, busy, stop, stopsLeft,
                 status, statusLeft, aux>>

\* Lines 333-343: the 3s delay before HTTP polling starts.
PollDelayFire(a) ==
  /\ att[a].poll = "delay"
  /\ att' = [att EXCEPT ![a].poll = IF att[a].isResolved THEN "off"
                                    ELSE "on"]
  /\ UNCHANGED <<configPort, serverPort, nextJsProcess, child, mon, busy,
                 stop, stopsLeft, status, statusLeft, aux>>

\* Lines 335-341: a tick of the 2s polling interval.
PollTick(a) ==
  /\ att[a].poll = "on"
  /\ IF att[a].isResolved
     THEN att' = [att EXCEPT ![a].poll = "off"]
     ELSE /\ att[a].pollChk = "none"
          /\ att' = [att EXCEPT ![a].pollChk = "fetch",
                                ![a].pollPort = serverPort]
  /\ UNCHANGED <<configPort, serverPort, nextJsProcess, child, mon, busy,
                 stop, stopsLeft, status, statusLeft, aux>>

(***************************************************************************)
(* performStartupHealthCheck (lines 275-316), called by the polling        *)
(* interval.                                                               *)
(***************************************************************************)
\* The HEAD request has completed: ok is (response.ok || status < 500).
\* Lines 282-294, up to the await of the log entry.  Reading
\* nextJsProcess.pid of a cleared handle throws into the catch, which
\* returns false.
PollFetchReturn(a, ok) ==
  /\ att[a].pollChk = "fetch"
  /\ CanAnswer(ok, att[a].pollPort)
  /\ IF ok /\ ~att[a].isResolved
     THEN att' = [att EXCEPT ![a].timeout = ClearTimeout(@),
                             ![a].poll = ClearPoll(@),
                             ![a].isResolved = TRUE,
                             ![a].ready = TRUE,
                             ![a].pollChk = IF nextJsProcess = NoProcess
                                            THEN "none" ELSE "log"]
     ELSE att' = [att EXCEPT ![a].pollChk = "none"]
  /\ UNCHANGED <<configPort, serverPort, nextJsProcess, child, mon, busy,
                 stop, stopsLeft, status, statusLeft, aux>>

\* Lines 296-309: monitoring is started for the pid of whatever
\* nextJsProcess is now, then the promise is resolved; an exception
\* (cleared handle, or the TypeError of startMonitoring) is swallowed by
\* the catch and nothing settles the promise.
PollAfterLog(a) ==
  /\ att[a].pollChk = "log"
  /\ IF nextJsProcess = NoProcess
     THEN /\ att' = [att EXCEPT ![a].pollChk = "none"]
          /\ mon' = mon
     ELSE /\ mon' = startMonitoring(mon, nextJsProcess, serverPort)
          /\ att' = [att EXCEPT
                       ![a].pollChk = "none",
                       ![a].promise =
                          IF startMonitoringThrows(nextJsProcess) THEN @
                          ELSE Settle(@, "resolved")]
  /\ UNCHANGED <<configPort, serverPort, nextJsProcess, child, busy,
                 stop, stopsLeft, status, statusLeft, aux>>

(***************************************************************************)
(* The stdout listener (lines 346-395).                                    *)
(***************************************************************************)
\* Lines 346-363: the child prints a chunk that holds a ready marker;
\* after the debug log entry the 1s grace timer is set unless isResolved
\* (the timer callback looks at isResolved again).
ChildStdout(a) ==
  /\ child[a].st = "alive"
  /\ att[a].out = "none"
  /\ ~att[a].isResolved
  /\ att' = [att EXCEPT ![a].out = "grace"]
  /\ UNCHANGED <<configPort, serverPort, nextJsProcess, child, mon, busy,
                 stop, stopsLeft, status, statusLeft, aux>>

\* Lines 363-365: the grace timer fires and calls the health check.
GraceFire(a) ==
  /\ att[a].out = "grace"
  /\ att' = [att EXCEPT ![a].out = IF att[a].isResolved THEN "done"
                                   ELSE "fetch",
                        ![a].outPort = serverPort]
  /\ UNCHANGED <<configPort, serverPort, nextJsProcess, child, mon, busy,
                 stop, stopsLeft, status, statusLeft, aux>>

\* Lines 366-377: the health check returned false; the fallback runs
\* without looking at isResolved again.  at is the closure as the health
\* check left it.  Reading nextJsProcess.pid of a cleared handle throws
\* out of the timer callback.
Fallback(at) ==
  [at EXCEPT !.timeout = ClearTimeout(@), !.poll = ClearPoll(@),
             !.isResolved = TRUE,
             !.ready = IF nextJsProcess = NoProcess THEN @ ELSE TRUE,
             !.out = IF nextJsProcess = NoProcess THEN "done" ELSE "flog"]

\* The HEAD request of the health check called from the grace timer has
\* completed.
OutFetchReturn(a, ok) ==
  /\ att[a].out = "fetch"
  /\ CanAnswer(ok, att[a].outPort)
  /\ LET cur == att[a]
         p2 == [cur EXCEPT !.timeout = ClearTimeout(@),
                           !.poll = ClearPoll(@),
                           !.isResolved = TRUE, !.ready = TRUE]
     IN att' = [att EXCEPT ![a] =
          IF ok /\ cur.isResolved THEN [cur EXCEPT !.out = "done"]
          ELSE IF ok
          THEN IF nextJsProcess = NoProcess THEN Fallback(p2)
               ELSE [p2 EXCEPT !.out = "plog"]
          ELSE Fallback(cur)]
  /\ UNCHANGED <<configPort, serverPort, nextJsProcess, child, mon, busy,
                 stop, stopsLeft, status, statusLeft, aux>>

\* Lines 296-309 reached from the grace timer: the health check starts
\* monitoring; when that throws it returns false and the fallback runs.
OutAfterCheckLog(a) ==
  /\ att[a].out = "plog"
  /\ IF nextJsProcess = NoProcess
     THEN /\ att' = [att EXCEPT ![a] = Fallback(att[a])]
          /\ mon' = mon
     ELSE /\ mon' = startMonitoring(mon, nextJsProcess, serverPort)
          /\ att' = [att EXCEPT ![a] =
               IF startMonitoringThrows(nextJsProcess)
               THEN Fallback(att[a])
               ELSE [att[a] EXCEPT !.out = "done",
                                   !.promise = Settle(@, "resolved")]]
  /\ UNCHANGED <<configPort, serverPort, nextJsProcess, child, busy,
                 stop, stopsLeft, status, statusLeft, aux>>

\* Lines 379-390: the fallback starts monitoring and resolves.
OutAfterFallbackLog(a) ==
  /\ att[a].out = "flog"
  /\ IF nextJsProcess = NoProcess
     THEN /\ att' = [att EXCEPT ![a].out = "done"]
          /\ mon' = mon
     ELSE /\ mon' = startMonitoring(mon, nextJsProcess, serverPort)
          /\ att' = [att EXCEPT
                       ![a].out = "done",
                       ![a].promise =
                          IF startMonitoringThrows(nextJsProcess) THEN @
                          ELSE Settle(@, "resolved")]
  /\ UNCHANGED <<configPort, serverPort, nextJsProcess, child, busy,
                 stop, stopsLeft, status, statusLeft, aux>>

(***************************************************************************)
(* The stderr listener (lines 398-427).                                    *)
(***************************************************************************)
\* The stderr listener without the clearTimeout of lines 408 and 418.
ChildStderrKeepsTimeout(a) ==
  /\ child[a].st = "alive"
  /\ ~child[a].up
  /\ ~att[a].isResolved
  /\ att' = [att EXCEPT ![a].isResolved = TRUE,
                        ![a].promise = Settle(@, "rejected"),
                        ![a].why = "stderr"]
  /\ nextJsProcess' = NoProcess
  /\ UNCHANGED <<configPort, serverPort, child, mon, busy, stop, stopsLeft,
                 status, statusLeft, aux>>

\* The child, not yet listening, prints a line that holds EADDRINUSE,
\* EACCES or 'permission denied' before the start has settled: the
\* timeout is cancelled, the handle is cleared (the child is not
\* signalled) and, after the tray update, the promise is rejected.  Once
\* isResolved is set the listener only logs.
ChildStderr(a) ==
  /\ child[a].st = "alive"
  /\ ~child[a].up
  /\ ~att[a].isResolved
  /\ att' = [att EXCEPT ![a].timeout = ClearTimeout(@),
                        ![a].isResolved = TRUE,
                        ![a].promise = Settle(@, "rejected"),
                        ![a].why = "stderr"]
  /\ nextJsProcess' = NoProcess
  /\ UNCHANGED <<configPort, serverPort, child, mon, busy, stop, stopsLeft,
                 status, statusLeft, aux>>

(***************************************************************************)
(* The child process and the exit listener (lines 430-479).                *)
(***************************************************************************)
\* The child starts to listen on its port, which nobody else holds.
ChildUp(a) ==
  /\ child[a].st = "alive"
  /\ ~child[a].up
  /\ ~Listening(child[a].port)
  /\ child' = [child EXCEPT ![a].up = TRUE]
  /\ UNCHANGED <<configPort, serverPort, nextJsProcess, att, mon, busy,
                 stop, stopsLeft, status, statusLeft, aux>>

\* The child terminates (a crash, or the effect of a signal).
ChildExit(a) ==
  /\ child[a].st = "alive"
  /\ child' = [child EXCEPT ![a].st = "dead", ![a].up = FALSE]
  /\ UNCHANGED <<configPort, serverPort, nextJsProcess, att, mon, busy,
                 stop, stopsLeft, status, statusLeft, aux>>

\* The 'exit' event is delivered.  Lines 431-466: monitoring is stopped.
\* Before the start has settled the timeout is cancelled, the handle is
\* cleared and the promise rejected; otherwise the stop is logged first.
ExitEvent(a) ==
  /\ child[a].st = "dead"
  /\ mon' = stopMonitoring(mon)
  /\ IF ~att[a].isResolved
     THEN /\ att' = [att EXCEPT ![a].timeout = ClearTimeout(@),
                                ![a].isResolved = TRUE,
                                ![a].promise = Settle(@, "rejected"),
                                ![a].why = "exit"]
          /\ child' = [child EXCEPT ![a].st = "gone"]
          /\ nextJsProcess' = NoProcess
     ELSE /\ child' = [child EXCEPT ![a].st = "clog"]
          /\ UNCHANGED <<att, nextJsProcess>>
  /\ UNCHANGED <<configPort, serverPort, busy, stop, stopsLeft, status,
                 statusLeft, aux>>

\* The end of the exit listener with handleServerExit (ServerMonitor.js
\* lines 252-268) called in the place of the missing handleServerCrash:
\* 'server-crashed' is emitted, its listener finds no handle and sets the
\* cooldown timer when auto-start is on, and monitoring is stopped.
ExitCrashEmits(a) ==
  /\ child[a].st = "clog"
  /\ child' = [child EXCEPT ![a].st = "gone"]
  /\ nextJsProcess' = NoProcess
  /\ crashed' = crashed + 1
  /\ restart' = [restart EXCEPT
                   !.cooldowns = IF restart.autoStart THEN @ + 1 ELSE @]
  /\ mon' = stopMonitoring(mon)
  /\ UNCHANGED <<configPort, serverPort, att, busy, stop, stopsLeft,
                 status, statusLeft, hc, eh, cfg, pure>>

\* Lines 472-477: exit after startup, after the log entry.  Whatever
\* nextJsProcess is now is cleared; serverMonitor.handleServerCrash is
\* not a method of ServerMonitor (it has handleServerExit), so the call
\* throws a TypeError and no event is emitted.
ExitCrash(a) ==
  /\ child[a].st = "clog"
  /\ child' = [child EXCEPT ![a].st = "gone"]
  /\ nextJsProcess' = NoProcess
  /\ UNCHANGED <<configPort, serverPort, att, mon, busy, stop, stopsLeft,
                 status, statusLeft, aux>>

(***************************************************************************)
(* ServerMonitor timers.                                                   *)
(***************************************************************************)
\* Lines 52-68: a warm-up timeout fires.  It is not cancelled by
\* stopMonitoring, and it overwrites monitorInterval without clearing
\* the timer that field refers to.
WarmupFire ==
  /\ mon.warmups > 0
  /\ mon' = IF mon.isMonitoring
            THEN [mon EXCEPT !.warmups = @ - 1,
                             !.healthCheckInterval = Ms(10000),
                             !.monitorInterval = Ms(10000),
                             !.leaked = IF mon.monitorInterval # 0
                                        THEN @ + 1 ELSE @]
            ELSE [mon EXCEPT !.warmups = @ - 1]
  /\ UNCHANGED <<configPort, serverPort, nextJsProcess, child, att, busy,
                 stop, stopsLeft, status, statusLeft, aux>>

(***************************************************************************)
(* stopNextJsServer (lines 520-618).                                       *)
(***************************************************************************)
\* The call of stop() with stopMonitoring() moved out of the
\* `if (nextJsProcess)` block of line 523.
StopCallStopsMonitoring ==
  /\ stopsLeft > 0
  /\ stop.pc = "none"
  /\ stopsLeft' = stopsLeft - 1
  /\ mon' = stopMonitoring(mon)
  /\ stop' = IF nextJsProcess # NoProcess
             THEN [StopInit EXCEPT !.pc = "log", !.tracked = TRUE,
                                   !.handle = nextJsProcess,
                                   !.calls = stop.calls + 1,
                                   !.after = stop.after]
             ELSE [StopInit EXCEPT !.pc = "probe", !.port = serverPort,
                                   !.calls = stop.calls + 1,
                                   !.after = stop.after]
  /\ UNCHANGED <<configPort, serverPort, nextJsProcess, child, att,
                 busy, status, statusLeft, aux>>

\* Lines 520-525 and 543: stop() is called.  With a tracked handle the
\* stop request is logged first; without one the port is probed at once.
\* tracked, handle, answered, done and calls record what this call saw and did.
StopCall ==
  /\ stopsLeft > 0
  /\ stop.pc = "none"
  /\ stopsLeft' = stopsLeft - 1
  /\ stop' = IF nextJsProcess # NoProcess
             THEN [StopInit EXCEPT !.pc = "log", !.tracked = TRUE,
                                   !.handle = nextJsProcess,
                                   !.calls = stop.calls + 1,
                                   !.after = stop.after]
             ELSE [StopInit EXCEPT !.pc = "probe", !.port = serverPort,
                                   !.calls = stop.calls + 1,
                                   !.after = stop.after]
  /\ UNCHANGED <<configPort, serverPort, nextJsProcess, child, att, mon,
                 busy, status, statusLeft, aux>>

\* Lines 528-536: monitoring is stopped and SIGTERM is sent to whatever
\* nextJsProcess is now (a cleared handle throws into the catch).
StopKill ==
  /\ stop.pc = "log"
  /\ mon' = stopMonitoring(mon)
  /\ child' = KillChild(child, nextJsProcess)
  /\ stop' = [stop EXCEPT !.pc = "killed"]
  /\ UNCHANGED <<configPort, serverPort, nextJsProcess, att, busy,
                 stopsLeft, status, statusLeft, aux>>

\* Lines 538-546: the handle is cleared and the port is probed.
StopClear ==
  /\ stop.pc = "killed"
  /\ nextJsProcess' = NoProcess
  /\ stop' = [stop EXCEPT !.pc = "probe", !.port = serverPort]
  /\ UNCHANGED <<configPort, serverPort, child, att, mon, busy, stopsLeft,
                 status, statusLeft, aux>>

\* Lines 546-618: the probe has completed (a failed fetch is caught at
\* line 595).  On an answer below 500 the owner of the port is looked for
\* with netstat, on win32 only; the 3 s status check is scheduled and
\* stop() returns.
StopProbeReturn(ok) ==
  /\ stop.pc = "probe"
  /\ CanAnswer(ok, stop.port)
  /\ stop' = [stop EXCEPT
                !.pc = "none", !.answered = ok, !.done = TRUE,
                !.after.timers = @ + 1,
                !.after.forced = IF ok /\ call.win32 THEN @ + 1 ELSE @,
                !.after.netstat = IF ok /\ call.win32 THEN @ + 1 ELSE @]
  /\ UNCHANGED <<configPort, serverPort, nextJsProcess, child, att, mon,
                 busy, stopsLeft, status, statusLeft, aux>>

\* The processes that listen on port p: children, and a foreign process.
Owner(pid, port) == [pid |-> pid, port |-> port]
Owners(p) ==
  {Owner(c, p) : c \in {h \in Attempts : ChildListens(h, p)}}
    \cup (IF p \in busy THEN {Owner(External, p)} ELSE {})

\* Lines 563-586: a netstat process closes.  When its output has a
\* LISTENING line for serverPort, taskkill /F is spawned for the pid of
\* that line.
StopNetstatClose ==
  /\ stop.after.netstat > 0
  /\ IF Owners(serverPort) = {}
     THEN stop' = [stop EXCEPT !.after.netstat = @ - 1]
     ELSE \E o \in Owners(serverPort) :
            stop' = [stop EXCEPT !.after.netstat = @ - 1,
                                 !.after.taskkill = @ \cup {o}]
  /\ UNCHANGED <<configPort, serverPort, nextJsProcess, child, att, mon,
                 busy, stopsLeft, status, statusLeft, aux>>

\* Lines 575-582: a taskkill process closes, with code 0 after it has
\* terminated the process, which then no longer holds its port.
StopTaskkillClose(o, killed) ==
  /\ o \in stop.after.taskkill
  /\ stop' = [stop EXCEPT !.after.taskkill = @ \ {o}]
  /\ IF killed /\ o.pid = External
     THEN /\ o.port \in busy
          /\ busy' = busy \ {o.port}
          /\ child' = child
     ELSE IF killed
     THEN /\ child[o.pid].st = "alive"
          /\ child' = [child EXCEPT ![o.pid].st = "dead",
                                    ![o.pid].up = FALSE]
          /\ busy' = busy
     ELSE UNCHANGED <<child, busy>>
  /\ UNCHANGED <<configPort, serverPort, nextJsProcess, att, mon,
                 stopsLeft, status, statusLeft, aux>>

\* Lines 600-610 with getServerStatus (lines 988-995): a 3 s timer fires.
\* A handle that is tracked and not killed is taken as a running server,
\* which is logged as a warning; otherwise the port is probed.
StopTimerFire ==
  /\ stop.after.timers > 0
  /\ stop.after.recheck = "none"
  /\ stop' = IF nextJsProcess # NoProcess /\ ~child[nextJsProcess].killed
             THEN [stop EXCEPT !.after.timers = @ - 1,
                               !.after.final = "warned"]
             ELSE [stop EXCEPT !.after.timers = @ - 1,
                               !.after.recheck = "fetch",
                               !.after.port = serverPort]
  /\ UNCHANGED <<configPort, serverPort, nextJsProcess, child, att, mon,
                 busy, stopsLeft, status, statusLeft, aux>>

\* Lines 601-609 with getServerStatus (lines 997-1018): the probe of the
\* timer has completed; an answer below 500 is logged as a warning,
\* anything else as 'confirmed stopped'.
StopRecheckReturn(ans) ==
  /\ stop.after.recheck = "fetch"
  /\ ans \in {"ok", "5xx"} => Listening(stop.after.port)
  /\ stop' = [stop EXCEPT !.after.recheck = "none",
                          !.after.final = IF ans = "ok" THEN "warned"
                                          ELSE "stopped"]
  /\ UNCHANGED <<configPort, serverPort, nextJsProcess, child, att, mon,
                 busy, stopsLeft, status, statusLeft, aux>>

(***************************************************************************)
(* getServerStatus (lines 986-1019).                                       *)
(***************************************************************************)
Answers == {"ok", "5xx", "none"}   \* status < 500, status >= 500, no answer

\* nextJsProcess?.pid || null
HandlePid == nextJsProcess

\* Lines 988-995: processRunning is computed; a handle that is tracked
\* and not killed is trusted, otherwise the port is probed.
StatusCall ==
  /\ statusLeft > 0
  /\ status.pc \in {"none", "done"}
  /\ statusLeft' = statusLeft - 1
  /\ LET processRunning ==
           nextJsProcess # NoProcess /\ ~child[nextJsProcess].killed
     IN status' =
          IF processRunning
          THEN [pc |-> "done", processRunning |-> TRUE, port |-> serverPort,
                answer |-> "none", running |-> TRUE, pid |-> HandlePid,
                st |-> "running"]
          ELSE [StatusInit EXCEPT !.pc = "fetch", !.port = serverPort]
  /\ UNCHANGED <<configPort, serverPort, nextJsProcess, child, att, mon,
                 busy, stop, stopsLeft, aux>>

\* Lines 997-1018: the probe has completed.
StatusReturn(ans) ==
  /\ status.pc = "fetch"
  /\ ans \in {"ok", "5xx"} => Listening(status.port)
  /\ status' =
       IF ans = "ok"
       THEN [status EXCEPT !.pc = "done", !.answer = ans, !.running = TRUE,
                           !.pid = External, !.st = "running-external"]
       ELSE [status EXCEPT !.pc = "done", !.answer = ans,
                           !.running = status.processRunning,
                           !.pid = HandlePid,
                           !.st = IF status.processRunning THEN "running"
                                  ELSE "stopped"]
  /\ UNCHANGED <<configPort, serverPort, nextJsProcess, child, att, mon,
                 busy, stop, stopsLeft, statusLeft, aux>>

(***************************************************************************)
(* ServerMonitor: the periodic health check (lines 105-247).               *)
(***************************************************************************)
Min(x, y) == IF x <= y THEN x ELSE y

\* The back-off of line 234 without its Math.min.
BackoffUncapped(i) == (3 * i) \div 2

\* Math.min(this.healthCheckInterval * 1.5, 30000)
Backoff(i) == Min((3 * i) \div 2, Ms(30000))

\* if (this.monitorInterval) { clearInterval; setInterval(..., interval) }
Retime(m) ==
  IF m.monitorInterval # 0
  THEN [m EXCEPT !.monitorInterval = m.healthCheckInterval]
  ELSE m

\* getPerformanceMetrics() (lines 285-293): the metrics with the flags
\* computed from the state of the monitor.
getPerformanceMetrics(m) ==
  [requestCount |-> m.requestCount,
   errorCount |-> m.errorCount,
   uptime |-> m.uptime,
   responseTime |-> m.responseTime,
   isHealthy |-> m.retryCount = 0,
   isMonitoring |-> m.isMonitoring]

\* The supervisor calls startMonitoring(pid, port) (lines 33-68; the
\* registration of the process listeners then throws).
MonitorStart ==
  /\ hc.startsLeft > 0
  /\ hc' = [hc EXCEPT !.startsLeft = @ - 1,
                      !.stopped = IF mon.isMonitoring THEN @ + 1 ELSE @]
  /\ mon' = startMonitoring(mon, 1, serverPort)
  /\ UNCHANGED <<configPort, serverPort, nextJsProcess, child, att, busy,
                 stop, stopsLeft, status, statusLeft, crashed, restart, eh, cfg,
                 pure>>

\* stopMonitoring() is called (lines 87-100), monitoring or not; it
\* emits 'monitoring-stopped' unless it returns at line 88.
MonitorStop ==
  /\ hc.stopsLeft > 0
  /\ hc' = [hc EXCEPT !.stopsLeft = @ - 1,
                      !.stopped = IF mon.isMonitoring THEN @ + 1 ELSE @]
  /\ mon' = stopMonitoring(mon)
  /\ UNCHANGED <<configPort, serverPort, nextJsProcess, child, att, busy,
                 stop, stopsLeft, status, statusLeft, crashed, restart, eh, cfg,
                 pure>>

\* A poll timer ticks and calls performHealthCheck (lines 105-111), which
\* returns at once unless monitoring is on, and else sends its request.
Tick ==
  /\ mon.monitorInterval # 0 \/ mon.leaked > 0
  /\ hc.ticksLeft > 0
  /\ hc.probes < MaxInFlight
  /\ hc' = [hc EXCEPT !.ticksLeft = @ - 1,
                      !.probes = IF mon.isMonitoring /\ mon.serverPort # 0
                                 THEN @ + 1 ELSE @]
  /\ UNCHANGED <<configPort, serverPort, nextJsProcess, child, att, mon,
                 busy, stop, stopsLeft, status, statusLeft, crashed,
                 restart, eh, cfg, pure>>

\* The completion of a probe with lines 127-137 left out: the interval
\* is set back, the timer is not replaced.
ProbeReturnKeepsTimer(isHealthy) ==
  /\ hc.probes > 0
  /\ IF isHealthy
     THEN /\ mon' = LET m1 == [mon EXCEPT !.retryCount = 0,
                                          !.requestCount = @ + 1,
                                          !.uptime = 1,
                                          !.responseTime = 1]
                    IN IF m1.healthCheckInterval > Ms(5000)
                       THEN [m1 EXCEPT !.healthCheckInterval = Ms(5000)]
                       ELSE m1
          /\ hc' = [hc EXCEPT !.probes = @ - 1]
     ELSE /\ mon' = [mon EXCEPT !.retryCount = @ + 1,
                                !.errorCount = @ + 1,
                                !.uptime = 1,
                                !.responseTime = 1]
          /\ hc' = [hc EXCEPT !.probes = @ - 1, !.warned = @ + 1,
                              !.crossings =
                                 IF mon.retryCount + 1 = maxRetries
                                 THEN @ + 1 ELSE @]
  /\ UNCHANGED <<configPort, serverPort, nextJsProcess, child, att, busy,
                 stop, stopsLeft, status, statusLeft, crashed, restart, eh, cfg,
                 pure>>

\* checkServerHealth has completed with isHealthy (any HTTP answer is
\* healthy; an error or the 4s timeout is not).  Lines 112-157 and, for a
\* failure, handleHealthCheckFailure up to its first log entry (204-208).
ProbeReturn(isHealthy) ==
  /\ hc.probes > 0
  /\ IF isHealthy
     THEN /\ mon' = LET m1 == [mon EXCEPT !.retryCount = 0,
                                          !.requestCount = @ + 1,
                                          !.uptime = 1,
                                          !.responseTime = 1]
                    IN IF m1.healthCheckInterval > Ms(5000)
                       THEN Retime([m1 EXCEPT
                                      !.healthCheckInterval = Ms(5000)])
                       ELSE m1
          /\ hc' = [hc EXCEPT !.probes = @ - 1]
     ELSE /\ mon' = [mon EXCEPT !.retryCount = @ + 1,
                                !.errorCount = @ + 1,
                                !.uptime = 1,
                                !.responseTime = 1]
          /\ hc' = [hc EXCEPT !.probes = @ - 1, !.warned = @ + 1,
                              !.crossings =
                                 IF mon.retryCount + 1 = maxRetries
                                 THEN @ + 1 ELSE @]
  /\ UNCHANGED <<configPort, serverPort, nextJsProcess, child, att, busy,
                 stop, stopsLeft, status, statusLeft, crashed, restart, eh, cfg,
                 pure>>

\* Lines 215-227: a failure handler resumes after its first log entry,
\* emits 'health-check-failed' and, with the count as it is now at the
\* threshold, logs the escalation.
FailureWarned ==
  /\ hc.warned > 0
  /\ hc' = [hc EXCEPT !.warned = @ - 1,
                      !.escalated = IF mon.retryCount >= maxRetries
                                    THEN @ + 1 ELSE @]
  /\ UNCHANGED <<configPort, serverPort, nextJsProcess, child, att, mon,
                 busy, stop, stopsLeft, status, statusLeft, crashed,
                 restart, eh, cfg, pure>>

\* Lines 228-245: a failure handler resumes after the escalation entry,
\* emits 'server-unhealthy', backs the interval off and resets the count.
FailureEscalated ==
  /\ hc.escalated > 0
  /\ hc' = [hc EXCEPT !.escalated = @ - 1, !.unhealthy = @ + 1]
  /\ mon' = [Retime([mon EXCEPT !.healthCheckInterval = Backoff(@)])
               EXCEPT !.retryCount = 0]
  /\ UNCHANGED <<configPort, serverPort, nextJsProcess, child, att, busy,
                 stop, stopsLeft, status, statusLeft, crashed, restart, eh, cfg,
                 pure>>

(***************************************************************************)
(* The auto-restart listener of 'server-crashed' (lines 155-185).          *)
(***************************************************************************)
\* ServerMonitor.handleServerExit (lines 252-268) emits 'server-crashed'
\* and stops monitoring.  The listener runs within the emit: with a
\* tracked handle it ignores the event, with auto-start on it sets the 7s
\* cooldown timer.
ServerCrashed ==
  /\ restart.signalsLeft > 0
  /\ crashed' = crashed + 1
  /\ restart' = [restart EXCEPT
                   !.signalsLeft = @ - 1,
                   !.cooldowns = IF nextJsProcess = NoProcess
                                    /\ restart.autoStart
                                 THEN @ + 1 ELSE @]
  /\ mon' = stopMonitoring(mon)
  /\ UNCHANGED <<configPort, serverPort, nextJsProcess, child, att, busy,
                 stop, stopsLeft, status, statusLeft, hc, eh, cfg, pure>>

\* Lines 166-171: a cooldown fires while a handle is tracked: the restart
\* is cancelled.
CooldownCancel ==
  /\ restart.cooldowns > 0
  /\ nextJsProcess # NoProcess
  /\ restart' = [restart EXCEPT !.cooldowns = @ - 1]
  /\ UNCHANGED <<configPort, serverPort, nextJsProcess, child, att, mon,
                 busy, stop, stopsLeft, status, statusLeft, crashed, hc, eh, cfg,
                 pure>>

\* Lines 166-174: a cooldown fires while no handle is tracked: it calls
\* startNextJsServer.
CooldownStart(a) ==
  /\ restart.cooldowns > 0
  /\ nextJsProcess = NoProcess
  /\ startNextJsServer(a)
  /\ restart' = [restart EXCEPT !.cooldowns = @ - 1,
                                !.started = @ \cup {a}]
  /\ UNCHANGED <<crashed, hc, eh, cfg, pure>>

(***************************************************************************)
(* NetworkManager.suggestAlternativePorts (lines 341-368).                 *)
(***************************************************************************)
preferredPorts == <<8080, 3000, 9000, 5000, 8000>>

maxAttempts == 50

InSeq(q, x) == \E i \in 1..Len(q) : q[i] = x

\* How a promise has settled.
Resolved(value) == [settled |-> "resolved", value |-> value]
Rejected == [settled |-> "rejected", value |-> <<>>]

\* The while loop: ports currentPort+1, +2, ... are probed until count
\* are found or maxAttempts probes were made; a probe that rejects ends
\* the call.
RECURSIVE ScanPorts(_, _, _, _)
ScanPorts(testPort, attempts, suggestions, count) ==
  IF Len(suggestions) < count /\ attempts < maxAttempts
  THEN IF listenThrows(testPort) THEN Rejected
       ELSE ScanPorts(testPort + 1, attempts + 1,
                      IF isPortAvailable(testPort)
                      THEN Append(suggestions, testPort) ELSE suggestions,
                      count)
  ELSE Resolved(suggestions)

\* The for loop over preferredPorts from index i on.
RECURSIVE AddPreferred(_, _, _, _)
AddPreferred(i, suggestions, currentPort, count) ==
  IF i > Len(preferredPorts) THEN suggestions
  ELSE LET port == preferredPorts[i]
       IN IF port # currentPort /\ ~InSeq(suggestions, port)
             /\ isPortAvailable(port)
          THEN IF Len(suggestions) + 1 >= count
               THEN Append(suggestions, port)
               ELSE AddPreferred(i + 1, Append(suggestions, port),
                                 currentPort, count)
          ELSE AddPreferred(i + 1, suggestions, currentPort, count)

\* suggestAlternativePorts with the scan begun at currentPort itself.
suggestAlternativePortsFromCurrent(currentPort, count) ==
  LET scan == ScanPorts(currentPort, 0, <<>>, count)
  IN IF scan.settled = "resolved" /\ Len(scan.value) < count
     THEN Resolved(AddPreferred(1, scan.value, currentPort, count))
     ELSE scan

\* suggestAlternativePorts(currentPort, count), lines 341-368.
suggestAlternativePorts(currentPort, count) ==
  LET scan == ScanPorts(currentPort + 1, 0, <<>>, count)
  IN IF scan.settled = "resolved" /\ Len(scan.value) < count
     THEN Resolved(AddPreferred(1, scan.value, currentPort, count))
     ELSE scan

(***************************************************************************)
(* ConfigManager (part_000).                                               *)
(***************************************************************************)
\* set('server.port', value), lines 130-152: the in-memory object is
\* written; when config.server is defaultConfig.server, so is the default.
SetPort(c, value) ==
  IF c.aliased THEN [c EXCEPT !.defaultPort = value] ELSE c

(***************************************************************************)
(* ErrorHandler: the classification of an error (lines 45-188).            *)
(*                                                                         *)
(* An error is a code and a message; a message is a sequence of words.     *)
(* String.includes is case-sensitive and finds a keyword inside a longer   *)
(* word, so each word comes with the keywords that occur in it as written. *)
(***************************************************************************)
\* error.code; "none" stands for an error without a code.
Codes ==
  {"none", "ECONNREFUSED", "ENOTFOUND", "ETIMEDOUT", "ECONNRESET",
   "ENOENT", "EACCES", "EPERM", "EMFILE", "EADDRINUSE", "EPIPE"}

Words ==
  {"Port", "export", "address", "Invalid", "validation", "config",
   "setting", "Server", "http", "FATAL", "CRITICAL", "critical", "failed"}

\* String.prototype.toLowerCase, word by word.
LowerWord(w) ==
  CASE w = "Port" -> "port"
    [] w = "Invalid" -> "invalid"
    [] w = "Server" -> "server"
    [] w = "FATAL" -> "fatal"
    [] w = "CRITICAL" -> "critical"
    [] OTHER -> w

toLowerCase(message) == [i \in 1..Len(message) |-> LowerWord(message[i])]

\* The keywords of lines 81-98 and 180 that occur in the word w as it is
\* written.
KeywordsIn(w) ==
  CASE w \in {"port", "export"} -> {"port"}
    [] w \in {"address", "invalid", "validation", "config", "setting",
              "server", "http", "FATAL", "CRITICAL"} -> {w}
    [] OTHER -> {}

\* message.includes(keyword)
includes(message, keyword) ==
  \E i \in 1..Len(message) : keyword \in KeywordsIn(message[i])

\* categorizeError, lines 66-101.
categorizeError(error) ==
  LET code == error.code
      message == toLowerCase(error.message)
  IN CASE code \in {"ECONNREFUSED", "ENOTFOUND", "ETIMEDOUT", "ECONNRESET"}
            -> "network"
       [] code \in {"ENOENT", "EACCES", "EPERM", "EMFILE"} -> "system"
       [] \/ code = "EADDRINUSE"
          \/ includes(message, "port")
          \/ includes(message, "address") -> "port"
       [] includes(message, "invalid") \/ includes(message, "validation")
            -> "validation"
       [] includes(message, "config") \/ includes(message, "setting")
            -> "configuration"
       [] includes(message, "server") \/ includes(message, "http")
            -> "server"
       [] OTHER -> "generic"

\* determineSeverity, lines 106-126.
determineSeverity(error) ==
  LET type == categorizeError(error)
  IN CASE type \in {"system", "configuration"} -> "critical"
       [] type \in {"server", "port"} -> "high"
       [] type \in {"network", "validation"} -> "medium"
       [] OTHER -> "low"

\* isRecoverable without the test of the message at line 180.
isRecoverableWhateverMessage(error) ==
  LET code == error.code
      type == categorizeError(error)
  IN CASE type = "network" -> TRUE
       [] code \in {"ENOENT", "EACCES", "EPERM"} -> FALSE
       [] OTHER -> TRUE

\* isRecoverable, lines 169-188.
isRecoverable(error) ==
  LET code == error.code
      type == categorizeError(error)
  IN CASE type = "network" -> TRUE
       [] code \in {"ENOENT", "EACCES", "EPERM"} -> FALSE
       [] \/ includes(error.message, "FATAL")
          \/ includes(error.message, "CRITICAL") -> FALSE
       [] OTHER -> TRUE

\* analyzeError, lines 45-61: the derived fields of the record.
analyzeError(error) ==
  [code |-> error.code, message |-> error.message,
   type |-> categorizeError(error), severity |-> determineSeverity(error),
   recoverable |-> isRecoverable(error)]

(***************************************************************************)
(* ErrorHandler: the error history (lines 9-10 and 378-391).  A record is  *)
(* represented by its number in the order of creation.                     *)
(***************************************************************************)
maxHistorySize == 100
defaultLimit == 50

\* Array.prototype.slice(0, end): a negative end counts from the end of
\* the array.
slice(array, end) ==
  LET len == Len(array)
      to == IF end < 0 THEN (IF len + end < 0 THEN 0 ELSE len + end)
            ELSE IF end > len THEN len ELSE end
  IN SubSeq(array, 1, to)

\* addToHistory with the newest record cut off when the history is full.
addToHistoryDropsNewest(errorHistory, errorInfo) ==
  LET unshifted == <<errorInfo>> \o errorHistory
  IN IF Len(unshifted) > maxHistorySize
     THEN Tail(unshifted)
     ELSE unshifted

\* addToHistory, lines 378-384.
addToHistory(errorHistory, errorInfo) ==
  LET unshifted == <<errorInfo>> \o errorHistory
  IN IF Len(unshifted) > maxHistorySize
     THEN slice(unshifted, maxHistorySize)
     ELSE unshifted

\* getErrorHistory(limit = 50), lines 389-391.
getErrorHistory(errorHistory, limit) == slice(errorHistory, limit)

(***************************************************************************)
(* ErrorHandler (lines 17-40 and 253-373).                                 *)
(***************************************************************************)
\* The cap tested one attempt too late.
CapReachedLate(attempts) == attempts > 3

\* if (attempts >= 3), line 258
CapReached(attempts) == attempts >= 3

Recovering == {i \in 1..Len(eh.log) : eh.log[i].outcome = "pending"}

Entry(kind, type, outcome, mutated, port) ==
  [kind |-> kind, type |-> type, outcome |-> outcome, mutated |-> mutated,
   port |-> port]

\* handleError with lines 28-29 moved into the `if` of line 31.
HandleErrorReportsRecoveredOnly(type, recoverable, shouldRecover) ==
  /\ eh.errorsLeft > 0
  /\ type = "network" => recoverable
  /\ Cardinality(Recovering) < MaxRecovering
  /\ LET attempts == eh.recoveryAttempts[type]
         e1 == [eh EXCEPT !.errorsLeft = @ - 1]
     IN eh' =
          IF ~(shouldRecover /\ recoverable) THEN e1
          ELSE IF CapReached(attempts)
          THEN [e1 EXCEPT
                  !.recorded = @ + 1,
                  !.emitted = @ + 1,
                  !.warnings = @ + 1,
                  !.log = Append(@, Entry("attempt", type, "refused",
                                          FALSE, 0))]
          ELSE [e1 EXCEPT
                  !.recorded = @ + 1,
                  !.emitted = @ + 1,
                  !.recoveryAttempts[type] = attempts + 1,
                  !.log = Append(@, Entry("attempt", type, "pending",
                                          TRUE, configPort))]
  /\ UNCHANGED <<configPort, serverPort, nextJsProcess, child, att, mon,
                 busy, stop, stopsLeft, status, statusLeft, crashed,
                 restart, hc, cfg, pure>>

\* handleError(error, context, shouldRecover) for an error of category
\* type, up to the first suspension of the recovery strategy.  Lines
\* 19-33 and 254-263; for a port error also line 323.  The record is
\* added to the history and 'error-occurred' emitted (lines 28-29) before
\* the recovery is looked at.
HandleError(type, recoverable, shouldRecover) ==
  /\ eh.errorsLeft > 0
  /\ type = "network" => recoverable
  /\ Cardinality(Recovering) < MaxRecovering
  /\ LET attempts == eh.recoveryAttempts[type]
         e1 == [eh EXCEPT !.errorsLeft = @ - 1,
                          !.recorded = @ + 1,
                          !.emitted = @ + 1]
     IN eh' =
          IF ~(shouldRecover /\ recoverable) THEN e1
          ELSE IF CapReached(attempts)
          THEN [e1 EXCEPT
                  !.warnings = @ + 1,
                  !.log = Append(@, Entry("attempt", type, "refused",
                                          FALSE, 0))]
          ELSE [e1 EXCEPT
                  !.recoveryAttempts[type] = attempts + 1,
                  !.log = Append(@, Entry("attempt", type, "pending",
                                          TRUE, configPort))]
  /\ UNCHANGED <<configPort, serverPort, nextJsProcess, child, att, mon,
                 busy, stop, stopsLeft, status, statusLeft, crashed,
                 restart, hc, cfg, pure>>

\* handleError(error, context, shouldRecover), lines 17-40: the error is
\* classified (line 19) and handled by its category.
handleError(error, shouldRecover) ==
  HandleError(categorizeError(error), isRecoverable(error), shouldRecover)

\* The event of lines 329-333.
PortChanged(oldPort, newPort) ==
  [oldPort |-> oldPort, newPort |-> newPort,
   reason |-> "Port conflict resolution"]

\* The end of a strategy with the configManager.set of line 327 left out.
StrategyReturnKeepsPort(i, isConnected) ==
  /\ i \in Recovering
  /\ LET type == eh.log[i].type
         suggestions == suggestAlternativePorts(eh.log[i].port, 1).value
         success ==
           CASE type = "network" -> isConnected
             [] type = "port" -> suggestions # <<>>
             [] type = "configuration" -> TRUE
             [] OTHER -> FALSE
         done == [eh.log EXCEPT ![i].outcome = IF success THEN "succeeded"
                                               ELSE "failed"]
     IN /\ eh' = IF success
                 THEN [eh EXCEPT
                         !.recoveryAttempts[type] = 0,
                         !.log = Append(done, Entry("reset", type, "none",
                                                    TRUE, 0)),
                         !.signals =
                            IF type = "port"
                            THEN Append(@, PortChanged(eh.log[i].port,
                                                       suggestions[1]))
                            ELSE @]
                 ELSE [eh EXCEPT !.log = done]
        /\ configPort' =
             CASE type = "configuration" -> cfg.defaultPort
               [] OTHER -> configPort
        /\ cfg' =
             CASE type = "configuration" -> [cfg EXCEPT !.aliased = TRUE]
               [] OTHER -> cfg
        /\ serverPort' =
             CASE type = "port" /\ success -> suggestions[1]
               [] OTHER -> serverPort
  /\ UNCHANGED <<nextJsProcess, child, att, mon, busy, stop,
                 stopsLeft, status, statusLeft, crashed, restart, hc, pure>>

\* The strategy of the recovery attempt i has run to its end (lines
\* 265-291 with 302-373): network recovers when connectivity is back,
\* port when a free port is suggested (the configuration is moved to it),
\* configuration by resetToDefault; server and the other categories never
\* recover.  A success deletes the counter of the category; a rejected
\* suggestAlternativePorts is caught at line 293 and is no success.  The
\* event of a moved port runs the listener of the main process, which
\* assigns the new port to serverPort.
StrategyReturn(i, isConnected) ==
  /\ i \in Recovering
  /\ LET type == eh.log[i].type
         suggestions == suggestAlternativePorts(eh.log[i].port, 1).value
         success ==
           CASE type = "network" -> isConnected
             [] type = "port" -> suggestions # <<>>
             [] type = "configuration" -> TRUE
             [] OTHER -> FALSE
         done == [eh.log EXCEPT ![i].outcome = IF success THEN "succeeded"
                                               ELSE "failed"]
     IN /\ eh' = IF success
                 THEN [eh EXCEPT
                         !.recoveryAttempts[type] = 0,
                         !.log = Append(done, Entry("reset", type, "none",
                                                    TRUE, 0)),
                         !.signals =
                            IF type = "port"
                            THEN Append(@, PortChanged(eh.log[i].port,
                                                       suggestions[1]))
                            ELSE @]
                 ELSE [eh EXCEPT !.log = done]
        /\ configPort' =
             CASE type = "port" /\ success -> suggestions[1]
               [] type = "configuration" -> cfg.defaultPort
               [] OTHER -> configPort
        /\ cfg' =
             CASE type = "port" /\ success -> SetPort(cfg, suggestions[1])
               [] type = "configuration" -> [cfg EXCEPT !.aliased = TRUE]
               [] OTHER -> cfg
        /\ serverPort' =
             CASE type = "port" /\ success -> suggestions[1]
               [] OTHER -> serverPort
  /\ UNCHANGED <<nextJsProcess, child, att, mon, busy, stop,
                 stopsLeft, status, statusLeft, crashed, restart, hc, pure>>

\* clearErrorHistory() without its recoveryAttempts.clear() of line 435.
clearErrorHistoryKeepsAttempts ==
  /\ eh.clearsLeft > 0
  /\ eh' = [eh EXCEPT !.clearsLeft = @ - 1,
                      !.log = Append(@, Entry("clear", "none", "none",
                                              TRUE, 0))]
  /\ UNCHANGED <<configPort, serverPort, nextJsProcess, child, att, mon,
                 busy, stop, stopsLeft, status, statusLeft, crashed,
                 restart, hc, cfg, pure>>

\* clearErrorHistory(), lines 433-437.
clearErrorHistory ==
  /\ eh.clearsLeft > 0
  /\ eh' = [eh EXCEPT !.clearsLeft = @ - 1,
                      !.recoveryAttempts = [t \in Categories |-> 0],
                      !.log = Append(@, Entry("clear", "none", "none",
                                              TRUE, 0))]
  /\ UNCHANGED <<configPort, serverPort, nextJsProcess, child, att, mon,
                 busy, stop, stopsLeft, status, statusLeft, crashed,
                 restart, hc, cfg, pure>>

(***************************************************************************)
(* The specifications.                                                     *)
(***************************************************************************)
\* The steps of the start() calls of S and of their children.
Lifecycle(S) ==
  \/ \E a \in S : StartCall(a)
  \/ \E a \in S : PortCheck(a)
  \/ \E a \in S : PortConflict(a)
  \/ \E a \in S : Spawn(a)
  \/ \E a \in S : TimeoutFire(a)
  \/ \E a \in S : PollDelayFire(a)
  \/ \E a \in S : PollTick(a)
  \/ \E a \in S, ok \in BOOLEAN : PollFetchReturn(a, ok)
  \/ \E a \in S : PollAfterLog(a)
  \/ \E a \in S : ChildStdout(a)
  \/ \E a \in S : GraceFire(a)
  \/ \E a \in S, ok \in BOOLEAN : OutFetchReturn(a, ok)
  \/ \E a \in S : OutAfterCheckLog(a)
  \/ \E a \in S : OutAfterFallbackLog(a)
  \/ \E a \in S : ChildStderr(a)
  \/ \E a \in S : ChildUp(a)
  \/ \E a \in S : ChildExit(a)
  \/ \E a \in S : ExitEvent(a)
  \/ \E a \in S : ExitCrash(a)
  \/ WarmupFire

\* Concurrent start() calls.
Next == Lifecycle(Attempts)

Spec == Init /\ [][Next]_vars

\* One start() call with stop() and getServerStatus().
NextStatus ==
  \/ Lifecycle({1})
  \/ StopCall
  \/ StopKill
  \/ StopClear
  \/ \E ok \in BOOLEAN : StopProbeReturn(ok)
  \/ StatusCall
  \/ \E ans \in Answers : StatusReturn(ans)

SpecStatus == Init /\ [][NextStatus]_vars

\* One start() and the stop() calls with all they leave running, on
\* win32 and elsewhere, the port free or held by a foreign process.
NextStop ==
  \/ Lifecycle({1})
  \/ StopCall
  \/ StopKill
  \/ StopClear
  \/ \E ok \in BOOLEAN : StopProbeReturn(ok)
  \/ StopNetstatClose
  \/ \E o \in stop.after.taskkill, killed \in BOOLEAN :
        StopTaskkillClose(o, killed)
  \/ StopTimerFire
  \/ \E ans \in Answers : StopRecheckReturn(ans)

InitStop ==
  /\ InitSupervisor
  /\ busy \in {{}, {DefaultPort}}
  /\ cfg = CfgInit
  /\ restart = RestartInit
  /\ call \in {[CallInit EXCEPT !.win32 = b] : b \in BOOLEAN}

SpecStop == InitStop /\ [][NextStop]_vars

\* The auto-restart listener with the startup of the child (without the
\* readiness detection), user starts and stops, and 'server-crashed'
\* events delivered by the monitor.
NextRestart ==
  \/ ServerCrashed
  \/ CooldownCancel
  \/ \E a \in Attempts : CooldownStart(a)
  \/ \E a \in Attempts : StartCall(a)
  \/ \E a \in Attempts : PortCheck(a)
  \/ \E a \in Attempts : Spawn(a)
  \/ \E a \in Attempts : PollDelayFire(a)
  \/ \E a \in Attempts : TimeoutFire(a)
  \/ \E a \in Attempts : ChildUp(a)
  \/ \E a \in Attempts : ChildExit(a)
  \/ \E a \in Attempts : ExitEvent(a)
  \/ \E a \in Attempts : ExitCrash(a)
  \/ StopCall
  \/ StopKill
  \/ StopClear
  \/ \E ok \in BOOLEAN : StopProbeReturn(ok)

InitRestart ==
  /\ InitSupervisor
  /\ busy = {}
  /\ cfg = CfgInit
  /\ restart \in {[RestartInit EXCEPT !.autoStart = b] : b \in BOOLEAN}
  /\ call = CallInit

SpecRestart == InitRestart /\ [][NextRestart]_vars

\* The health monitor under any sequence of probe results.
NextHealth ==
  \/ MonitorStart
  \/ MonitorStop
  \/ WarmupFire
  \/ Tick
  \/ \E isHealthy \in BOOLEAN : ProbeReturn(isHealthy)
  \/ FailureWarned
  \/ FailureEscalated

SpecHealth == Init /\ [][NextHealth]_vars

\* The categories of the errors handled: one for each branch of the
\* strategy switch (system and validation errors take the default branch,
\* like generic ones).
Injected == Categories \ {"system", "validation"}

\* The error handler under any sequence of errors.
\* One error, or two, of each category of Injected: recoverable and, where
\* the category allows it, not.
Err(code, message) == [code |-> code, message |-> message]

InjectedErrors ==
  {e \in {Err("ECONNREFUSED", <<"failed">>),
          Err("EADDRINUSE", <<"address">>),
          Err("EADDRINUSE", <<"FATAL", "address">>),
          Err("none", <<"setting", "failed">>),
          Err("none", <<"config", "CRITICAL">>),
          Err("none", <<"Server", "failed">>),
          Err("none", <<"FATAL", "http">>),
          Err("none", <<"failed">>),
          Err("EPIPE", <<"FATAL">>)} : categorizeError(e) \in Injected}

NextRecovery ==
  \/ \E error \in InjectedErrors, shouldRecover \in BOOLEAN :
        handleError(error, shouldRecover)
  \/ \E i \in 1..(2 * MaxErrors + MaxClears), isConnected \in BOOLEAN :
        StrategyReturn(i, isConnected)
  \/ clearErrorHistory

\* Every port the port recovery can look at.
AllPorts ==
  (DefaultPort..(DefaultPort + MaxErrors + maxAttempts))
    \cup {preferredPorts[i] : i \in 1..Len(preferredPorts)}

InitRecovery ==
  /\ InitSupervisor
  /\ busy \in {{}, AllPorts}
  /\ restart = RestartInit
  /\ cfg \in {[CfgInit EXCEPT !.aliased = b] : b \in BOOLEAN}
  /\ call = CallInit

SpecRecovery == InitRecovery /\ [][NextRecovery]_vars

\* The recovery from port errors alone, with no port held, with every
\* port held, with every port held but the second or the last of the
\* preference list, and with the next port held.
PortErrors == {error \in InjectedErrors : categorizeError(error) = "port"}

NextPortRecovery ==
  \/ \E error \in PortErrors, shouldRecover \in BOOLEAN :
        handleError(error, shouldRecover)
  \/ \E i \in 1..(2 * MaxErrors + MaxClears) : StrategyReturn(i, FALSE)
  \/ clearErrorHistory

InitPortRecovery ==
  /\ InitSupervisor
  /\ busy \in {{}, AllPorts, AllPorts \ {preferredPorts[2]},
               AllPorts \ {preferredPorts[5]}, {DefaultPort + 1}}
  /\ restart = RestartInit
  /\ cfg \in {[CfgInit EXCEPT !.aliased = b] : b \in BOOLEAN}
  /\ call = CallInit

SpecPortRecovery == InitPortRecovery /\ [][NextPortRecovery]_vars

\* One start() with the status calls, and the recovery from a port error
\* that the error handler is given while the child is starting or running.
NextPorts ==
  \/ Lifecycle({1})
  \/ StatusCall
  \/ \E ans \in Answers : StatusReturn(ans)
  \/ /\ eh.errorsLeft > MaxErrors - MaxPortChanges
     /\ \E error \in PortErrors : handleError(error, TRUE)
  \/ \E i \in 1..(2 * MaxErrors + MaxClears) : StrategyReturn(i, FALSE)

SpecPorts == Init /\ [][NextPorts]_vars

\* The classification of any one error.
RECURSIVE SeqsUpTo(_, _)
SeqsUpTo(S, n) ==
  IF n = 0 THEN {<<>>}
  ELSE LET shorter == SeqsUpTo(S, n - 1)
       IN shorter \cup {Append(q, x) : q \in shorter, x \in S}

Errors == [code : Codes, message : SeqsUpTo(Words, MaxWords)]

InitClassify ==
  /\ InitSupervisor
  /\ busy = {}
  /\ cfg = CfgInit
  /\ restart = RestartInit
  /\ call \in {[op |-> "analyzeError", error |-> e, done |-> FALSE] :
                 e \in Errors}

Classify ==
  /\ call.op = "analyzeError"
  /\ ~call.done
  /\ call' = [op |-> "analyzeError", error |-> call.error, done |-> TRUE,
              info |-> analyzeError(call.error)]
  /\ UNCHANGED <<configPort, serverPort, nextJsProcess, child, att, mon,
                 busy, stop, stopsLeft, status, statusLeft, crashed,
                 restart, hc, eh, cfg>>

NextClassify == Classify

SpecClassify == InitClassify /\ [][NextClassify]_vars

\* The error history from any size it can have, under additions and
\* reads.
Limits ==
  {0, 1, defaultLimit, maxHistorySize - 1, maxHistorySize,
   maxHistorySize + 1}

\* The history after n errors: the records n, n - 1, ..., 1.
HistoryOf(n) == [i \in 1..n |-> n + 1 - i]

InitHistory ==
  /\ InitSupervisor
  /\ busy = {}
  /\ cfg = CfgInit
  /\ restart = RestartInit
  /\ call \in {[op |-> "history", errorHistory |-> HistoryOf(n),
                created |-> n, addsLeft |-> MaxAdds, limit |-> 0,
                got |-> <<>>, reads |-> 0] : n \in 0..maxHistorySize}

\* handleError, line 28: the next record is added.
AddToHistory ==
  /\ call.op = "history"
  /\ call.addsLeft > 0
  /\ call' = [call EXCEPT
                !.errorHistory = addToHistory(@, call.created + 1),
                !.created = @ + 1,
                !.addsLeft = @ - 1]
  /\ UNCHANGED <<configPort, serverPort, nextJsProcess, child, att, mon,
                 busy, stop, stopsLeft, status, statusLeft, crashed,
                 restart, hc, eh, cfg>>

\* 'errors:get-history' (part_004 lines 1193-1195): the history is read,
\* with a limit or with the default one.
GetErrorHistory(given, limit) ==
  /\ call.op = "history"
  /\ LET l == IF given THEN limit ELSE defaultLimit
     IN call' = [call EXCEPT !.limit = l,
                             !.got = getErrorHistory(call.errorHistory, l),
                             !.reads = 1]
  /\ UNCHANGED <<configPort, serverPort, nextJsProcess, child, att, mon,
                 busy, stop, stopsLeft, status, statusLeft, crashed,
                 restart, hc, eh, cfg>>

NextHistory ==
  \/ AddToHistory
  \/ \E given \in BOOLEAN, limit \in Limits : GetErrorHistory(given, limit)

SpecHistory == InitHistory /\ [][NextHistory]_vars

\* One call of suggestAlternativePorts ('network:suggest-ports', part_004
\* lines 1271-1274) for a port that can be configured, in an environment
\* where none, some or all of the ports it looks at are held.
CurrentPorts == {1020, 2999, 7999, 8079, 8080, 65484, 65485, 65530, 65532, 65535}

Preferred == {preferredPorts[i] : i \in 1..Len(preferredPorts)}

Scanned(currentPort) == (currentPort + 1)..(currentPort + maxAttempts)

Environments(currentPort) ==
  {held \cap 1..65535 :
     held \in {{}, {currentPort + 1}, {currentPort + 2},
               {currentPort, currentPort + 3},
               Scanned(currentPort) \ {currentPort + maxAttempts},
               Scanned(currentPort),
               Scanned(currentPort) \cup {8080, 9000},
               Scanned(currentPort) \cup Preferred}}

InitSuggest ==
  /\ InitSupervisor
  /\ cfg = CfgInit
  /\ restart = RestartInit
  /\ \E currentPort \in CurrentPorts :
       /\ busy \in Environments(currentPort)
       /\ call \in {[op |-> "suggestAlternativePorts", root |-> r,
                     currentPort |-> currentPort, count |-> n,
                     done |-> FALSE, result |-> Resolved(<<>>)] :
                      r \in BOOLEAN, n \in 0..MaxCount}

SuggestPorts ==
  /\ call.op = "suggestAlternativePorts"
  /\ ~call.done
  /\ call' = [call EXCEPT
                !.done = TRUE,
                !.result = suggestAlternativePorts(call.currentPort,
                                                   call.count)]
  /\ UNCHANGED <<configPort, serverPort, nextJsProcess, child, att, mon,
                 busy, stop, stopsLeft, status, statusLeft, crashed,
                 restart, hc, eh, cfg>>

NextSuggest == SuggestPorts

SpecSuggest == InitSuggest /\ [][NextSuggest]_vars

\* ConfigManager under any sequence of set('server.port', value),
\* resetToDefault() and get('server.port') calls, after a first run (no
\* file: config is a shallow copy of defaultConfig) and after a load of
\* a file that holds the default port (config is a merged copy).
ConfigPorts == {1024, 3000, DefaultPort, DefaultPort + 1, 65535}

InitConfig ==
  /\ InitSupervisor
  /\ busy = {}
  /\ restart = RestartInit
  /\ cfg \in {[CfgInit EXCEPT !.aliased = b] : b \in BOOLEAN}
  /\ call = [op |-> "none", value |-> 0, left |-> MaxConfigCalls]

\* set('server.port', value), part_000 lines 130-152.
ConfigSet(value) ==
  /\ call.left > 0
  /\ configPort' = value
  /\ cfg' = SetPort(cfg, value)
  /\ call' = [op |-> "set", value |-> value, left |-> call.left - 1]
  /\ UNCHANGED <<serverPort, nextJsProcess, child, att, mon, busy, stop,
                 stopsLeft, status, statusLeft, crashed, restart, hc, eh>>

\* resetToDefault(), part_000 lines 183-187: config becomes a shallow
\* copy of defaultConfig, so config.server is defaultConfig.server.
ConfigReset ==
  /\ call.left > 0
  /\ configPort' = cfg.defaultPort
  /\ cfg' = [cfg EXCEPT !.aliased = TRUE]
  /\ call' = [op |-> "resetToDefault", value |-> 0, left |-> call.left - 1]
  /\ UNCHANGED <<serverPort, nextJsProcess, child, att, mon, busy, stop,
                 stopsLeft, status, statusLeft, crashed, restart, hc, eh>>

\* get('server.port'), part_000 lines 108-124.
ConfigGet ==
  /\ call.left > 0
  /\ call' = [op |-> "get", value |-> configPort, left |-> call.left - 1]
  /\ UNCHANGED <<configPort, serverPort, nextJsProcess, child, att, mon,
                 busy, stop, stopsLeft, status, statusLeft, crashed,
                 restart, hc, eh, cfg>>

NextConfig ==
  \/ \E value \in ConfigPorts : ConfigSet(value)
  \/ ConfigReset
  \/ ConfigGet

SpecConfig == InitConfig /\ [][NextConfig]_vars

\* One call of isPortAvailable ('network:check-port', part_004 lines
\* 1266-1269) for any number the renderer passes.
ProbedPorts == {-1, 0, 80, 1023, 1024, 8080, 65535, 65536, 70000}

InitProbe ==
  /\ InitSupervisor
  /\ cfg = CfgInit
  /\ restart = RestartInit
  /\ busy \in SUBSET {80, 8080, 65535}
  /\ call \in {[op |-> "isPortAvailable", root |-> r, port |-> p,
                pc |-> "called", bound |-> FALSE, result |-> Rejected] :
                 r \in BOOLEAN, p \in ProbedPorts}

\* Lines 50-64: the server is created and listen(port) is called.  It
\* throws, which rejects the promise; or the bind fails and 'error'
\* resolves the promise with false; or the server is listening (on a port
\* the system chose, for port 0) and its release is asked for.
IsPortAvailableListen ==
  /\ call.op = "isPortAvailable"
  /\ call.pc = "called"
  /\ IF listenThrows(call.port)
     THEN /\ call' = [call EXCEPT !.pc = "done", !.result = Rejected]
          /\ busy' = busy
     ELSE IF call.port = 0 \/ isPortAvailable(call.port)
     THEN /\ call' = [call EXCEPT !.pc = "listening", !.bound = TRUE]
          /\ busy' = IF call.port = 0 THEN busy ELSE busy \cup {call.port}
     ELSE /\ call' = [call EXCEPT !.pc = "done", !.result = Resolved(FALSE)]
          /\ busy' = busy
  /\ UNCHANGED <<configPort, serverPort, nextJsProcess, child, att, mon,
                 stop, stopsLeft, status, statusLeft, crashed, restart, hc,
                 eh, cfg>>

\* Lines 56-58: the server is closed and the promise resolved with true.
IsPortAvailableClosed ==
  /\ call.op = "isPortAvailable"
  /\ call.pc = "listening"
  /\ call' = [call EXCEPT !.pc = "done", !.result = Resolved(TRUE)]
  /\ busy' = busy \ {call.port}
  /\ UNCHANGED <<configPort, serverPort, nextJsProcess, child, att, mon,
                 stop, stopsLeft, status, statusLeft, crashed, restart, hc,
                 eh, cfg>>

NextProbe ==
  \/ IsPortAvailableListen
  \/ IsPortAvailableClosed

SpecProbe == InitProbe /\ [][NextProbe]_vars

(***************************************************************************)
(* NetworkManager: the addresses of the machine (lines 98-138, 250-336).   *)
(***************************************************************************)
\* An IPv4 address is the sequence of the four numbers that
\* ip.split('.').map(num => parseInt(num, 10)) gives for it; the address
\* of an IPv6 alias has no '.', and its one part does not parse.
NotANumber == -1
split(address) == IF Len(address) = 4 THEN address ELSE <<NotANumber>>

Loopback == <<127, 0, 0, 1>>

\* isPrivateIP with its second range taken as the whole of 172.0.0.0/8.
isPrivateIPWholeOf172(ip) ==
  LET parts == split(ip)
  IN \/ parts[1] = 10
     \/ parts[1] = 172
     \/ Len(parts) >= 2 /\ parts[1] = 192 /\ parts[2] = 168
     \/ Len(parts) >= 2 /\ parts[1] = 169 /\ parts[2] = 254

\* isPrivateIP(ip) (lines 253-272)
isPrivateIP(ip) ==
  LET parts == split(ip)
  IN \/ parts[1] = 10
     \/ Len(parts) >= 2 /\ parts[1] = 172 /\ parts[2] >= 16 /\ parts[2] <= 31
     \/ Len(parts) >= 2 /\ parts[1] = 192 /\ parts[2] = 168
     \/ Len(parts) >= 2 /\ parts[1] = 169 /\ parts[2] = 254

priorityInterfaces == <<"Ethernet", "Wi-Fi", "en0", "eth0", "wlan0">>

\* os.networkInterfaces() is a sequence of interfaces in the order of
\* their keys, each with a name and the sequence of its aliases.
RECURSIVE AliasesOf(_, _)
AliasesOf(interfaces, names) ==
  IF names = <<>> THEN <<>>
  ELSE LET named == SelectSeq(interfaces,
                              LAMBDA i : i.name = Head(names))
       IN (IF named = <<>> THEN <<>> ELSE Head(named).aliases)
            \o AliasesOf(interfaces, Tail(names))

NamesOf(interfaces) == [i \in 1..Len(interfaces) |-> interfaces[i].name]

\* getLocalIPAddress() (lines 98-138): the first private, external IPv4
\* address of the priority interfaces, else of all the interfaces, else
\* the loopback address; the loopback address too when the enumeration
\* throws.
getLocalIPAddress(interfaces, throws) ==
  LET eligible(alias) == /\ alias.family = "IPv4"
                         /\ ~alias.internal
                         /\ isPrivateIP(alias.address)
      found == SelectSeq(AliasesOf(interfaces, priorityInterfaces)
                           \o AliasesOf(interfaces, NamesOf(interfaces)),
                         eligible)
  IN IF throws \/ found = <<>> THEN Loopback ELSE Head(found).address

\* `http://${host}:${port}`, and null
Url(host, port) == [scheme |-> "http", host |-> host, port |-> port]
NoUrl == [scheme |-> "none", host |-> <<>>, port |-> 0]

\* getNetworkInfo(port, enableLan) (lines 277-336); networkIP <<>> is null.
getNetworkInfo(interfaces, throws, port, enableLan) ==
  LET networkIP == getLocalIPAddress(interfaces, throws)
      lan == networkIP # Loopback /\ isPrivateIP(networkIP)
      localUrl == [type |-> "local", url |-> Url(Loopback, port)]
  IN [port |-> port,
      enableLan |-> enableLan,
      localIP |-> Loopback,
      networkIP |-> IF lan THEN networkIP ELSE <<>>,
      urls |-> [local |-> Url(Loopback, port),
                network |-> IF lan THEN Url(networkIP, port) ELSE NoUrl],
      accessUrls |-> IF lan /\ enableLan
                     THEN <<localUrl,
                            [type |-> "network", url |-> Url(networkIP, port)]>>
                     ELSE <<localUrl>>]


\* The aliases an interface may have: the loopback alias, private
\* addresses at the ends of the four ranges, addresses next to the ranges,
\* a public address and an IPv6 alias.
Alias(family, internal, address) ==
  [family |-> family, internal |-> internal, address |-> address]

Aliases ==
  {Alias("IPv4", TRUE, Loopback),
   Alias("IPv6", FALSE, <<>>),
   Alias("IPv4", FALSE, <<10, 0, 0, 5>>),
   Alias("IPv4", FALSE, <<11, 0, 0, 1>>),
   Alias("IPv4", FALSE, <<172, 15, 255, 255>>),
   Alias("IPv4", FALSE, <<172, 16, 0, 1>>),
   Alias("IPv4", FALSE, <<172, 31, 255, 254>>),
   Alias("IPv4", FALSE, <<172, 32, 0, 1>>),
   Alias("IPv4", FALSE, <<192, 168, 1, 20>>),
   Alias("IPv4", FALSE, <<192, 169, 1, 20>>),
   Alias("IPv4", FALSE, <<169, 254, 7, 7>>),
   Alias("IPv4", FALSE, <<8, 8, 8, 8>>)}

InterfaceNames == {"lo", "eth0", "docker0"}

\* The interfaces of a machine: up to MaxInterfaces interfaces of
\* different names, each with one alias.
Machines ==
  {m \in SeqsUpTo([name : InterfaceNames, aliases : {<<a>> : a \in Aliases}],
                  MaxInterfaces) :
     \A i, j \in 1..Len(m) : i # j => m[i].name # m[j].name}

InitNetInfo ==
  /\ InitSupervisor
  /\ busy = {}
  /\ cfg = CfgInit
  /\ restart = RestartInit
  /\ call \in {[op |-> "getNetworkInfo", root |-> FALSE, pc |-> "called",
                interfaces |-> m, throws |-> t, port |-> p,
                enableLan |-> e, localIP |-> <<>>, result |-> <<>>] :
                 m \in Machines, t \in BOOLEAN, p \in {3000, 8080},
                 e \in BOOLEAN}

\* One call of getNetworkInfo(port, enableLan); getLocalIPAddress stores
\* the address it returns in this.localIP.
GetNetworkInfo ==
  /\ call.op = "getNetworkInfo"
  /\ call.pc = "called"
  /\ call' = [call EXCEPT
                !.pc = "done",
                !.localIP = getLocalIPAddress(call.interfaces, call.throws),
                !.result = getNetworkInfo(call.interfaces, call.throws,
                                          call.port, call.enableLan)]
  /\ UNCHANGED <<configPort, serverPort, nextJsProcess, child, att, mon,
                 busy, stop, stopsLeft, status, statusLeft, crashed,
                 restart, hc, eh, cfg>>

NextNetInfo == GetNetworkInfo

SpecNetInfo == InitNetInfo /\ [][NextNetInfo]_vars

(***************************************************************************)
(* The claims.                                                             *)
(***************************************************************************)

\* A child is spawned for the start() call a in this step.
Spawned(a) == child[a].st = "none" /\ child'[a].st = "alive"

LiveChildren == {c \in Attempts : child[c].st = "alive"}

\* C1: a start() issued while another start() is pending or while a
\* handle is tracked never spawns a second child and never replaces the
\* handle: a child is spawned only when no handle is tracked and no
\* other child is alive.
C1_NoDoubleStart ==
  [][\A a \in Attempts :
       Spawned(a) => nextJsProcess = NoProcess /\ LiveChildren = {}]_vars

\* C2: a completed getServerStatus() tells the truth.  With a live
\* tracked handle at the call it reports running with the pid of the
\* handle; without one it reports running, pid 'external' and status
\* 'running-external' when the port answered HTTP, whatever the status
\* code, and not running when nothing answered.
C2_StatusTruthful ==
  status.pc = "done" =>
    IF status.processRunning
    THEN status.running /\ status.pid \in Attempts
    ELSE /\ status.answer \in {"ok", "5xx"}
              => /\ status.running
                 /\ status.pid = External
                 /\ status.st = "running-external"
         /\ status.answer = "none" => ~status.running

\* The ports suggestAlternativePorts looks at first.
AlternativeFree(p) == \E q \in (p + 1)..(p + 50) : isPortAvailable(q)

\* C3: when the configured port is occupied at start() and an
\* alternative port is free, start() does not fail because of the
\* occupied port.
C3_PreflightFindsFreePort ==
  \A a \in Attempts :
    att[a].pc = "failed" => ~AlternativeFree(serverPort)

\* C4: 'server-unhealthy' is emitted once for each time the count of
\* consecutive failures reaches maxRetries, never once for each failed
\* probe: there are never more emissions than threshold crossings, also
\* when failure handlers interleave.
C4_UnhealthyOncePerCrossing == hc.unhealthy <= hc.crossings

\* The positions of the log that hold a recovery attempt of category t.
AttemptsOf(t) ==
  {m \in 1..Len(eh.log) :
     eh.log[m].kind = "attempt" /\ eh.log[m].type = t}

\* The positions r[1] < r[2] < r[3] < r[4] hold four recovery attempts of
\* category t in a row: no other attempt of t lies between them.
FourInARow(t) ==
  {r \in AttemptsOf(t) \X AttemptsOf(t) \X AttemptsOf(t) \X AttemptsOf(t) :
     /\ r[1] < r[2] /\ r[2] < r[3] /\ r[3] < r[4]
     /\ \A m \in AttemptsOf(t) : r[1] <= m /\ m <= r[4] => m \in
          {r[1], r[2], r[3], r[4]}}

\* Between the positions i and l no recovery of category t has succeeded
\* and the counters were not cleared.
NoResetBetween(t, i, l) ==
  \A m \in i..l :
    /\ eh.log[m].kind # "clear"
    /\ ~(eh.log[m].kind = "reset" /\ eh.log[m].type = t)

\* The attempt at position l was refused: no strategy ran, nothing was
\* written, and every refusal has logged its warning.
Refused(l) ==
  /\ eh.log[l].outcome = "refused"
  /\ ~eh.log[l].mutated
  /\ eh.warnings =
       Cardinality({m \in 1..Len(eh.log) : eh.log[m].outcome = "refused"})

\* C5 as stated: of four recoverable errors of one category handled in a
\* row with recovery allowed, the 4th recovery attempt is refused, writes
\* nothing and logs a warning.
C5_FourthRefused ==
  \A t \in Categories : \A r \in FourInARow(t) : Refused(r[4])

\* C5, amended: the 4th attempt in a row is refused when, from the first
\* of the four to the 4th, no recovery of the category has succeeded and
\* the counters were not cleared.
C5_FourthRefusedUnlessReset ==
  \A t \in Categories : \A r \in FourInARow(t) :
    NoResetBetween(t, r[1], r[4]) => Refused(r[4])

\* Four attempts of one category in a row without a reset, the 4th
\* refused.
C5_FourthRefusedWitness ==
  \E t \in Categories : \E r \in FourInARow(t) :
    NoResetBetween(t, r[1], r[4]) /\ Refused(r[4])

\* A readiness step of the start() call a: its stdout listener or its
\* polling health check moves.
ReadinessStep(a) ==
  att'[a].out # att[a].out \/ att'[a].pollChk # att[a].pollChk

\* No start() was called while another was pending or a handle tracked.
NoOverlap == \A b \in Attempts : ~att[b].overlap

\* C6: once the startup timeout of a start() call has fired and rejected
\* it, a readiness signal of that call has no effect: it settles no
\* promise, starts no monitoring and leaves the handle alone.  (Stated
\* for the behaviours without overlapping starts.)
C6_LateReadinessIgnored ==
  [][\A a \in Attempts :
       NoOverlap /\ att[a].why = "timeout" /\ ReadinessStep(a)
         => /\ mon' = mon
            /\ nextJsProcess' = nextJsProcess
            /\ att'[a].promise = att[a].promise]_vars

\* Nothing is left that could settle the start() call a: its child is
\* gone, its timers are cancelled or have fired and none of its handlers
\* is suspended.
Quiescent(a) ==
  /\ att[a].pc = "spawned"
  /\ child[a].st = "gone"
  /\ att[a].timeout # "armed"
  /\ att[a].poll = "off"
  /\ att[a].pollChk = "none"
  /\ att[a].out \in {"none", "done"}

\* C7: every start() call settles (resolves or rejects): no call is
\* still pending when nothing is left that could settle it.
C7_StartSettles ==
  \A a \in Attempts : Quiescent(a) => att[a].promise # "pending"

CrashReported(a) == child[a].st = "gone" /\ att[a].ready

\* C9: when the crash of a running child is reported, health monitoring
\* has been torn down: the monitor watches nothing and no poll timer is
\* left.
C9_TeardownBeforeCrashSignal ==
  \A a \in Attempts :
    CrashReported(a) /\ (\A b \in Attempts \ {a} : att[b].pc = "idle")
      => ~mon.isMonitoring /\ mon.monitorInterval = 0 /\ mon.leaked = 0

\* C10: the crashed signal is emitted exactly once for each child that
\* exits after its start was declared successful, and never for a child
\* that exits during startup.
C10_CrashedOncePerRunningExit ==
  crashed = Cardinality({a \in Attempts : CrashReported(a)})


(***************************************************************************)
(* Stopping.                                                               *)
(***************************************************************************)
\* A step of stopNextJsServer: the call, one of its resumptions or its
\* return.
StopStep == stop' # stop

\* The state stop() is specified to leave alone when there is nothing to
\* stop.
StopFrame == <<nextJsProcess, configPort, serverPort, mon>>

\* C11: a stop() that finds no tracked handle and gets no answer on the
\* port returns normally, and none of its steps changes the handle, the
\* configured port, the port in use or the monitoring state; a second
\* stop() right after the first is such a call, so it leaves the state the
\* first one produced.
C11_StopWithoutHandleIsNoop ==
  [][(StopStep /\ ~stop'.tracked /\ ~stop'.answered)
       => /\ UNCHANGED StopFrame
          /\ stop'.pc \in {"probe", "none"}
          /\ (stop'.pc = "none" => stop'.done)]_vars

\* Two stop() calls have been made; the second found no handle, got no
\* answer and has returned.
C11_StopWithoutHandleWitness ==
  /\ stop.calls = 2
  /\ stop.pc = "none"
  /\ stop.done
  /\ ~stop.tracked
  /\ ~stop.answered
  /\ nextJsProcess = NoProcess


\* The step on which a stop() that was called with a tracked handle
\* returns.
StopReturns == stop.pc = "probe" /\ stop'.pc = "none" /\ stop.tracked

\* Child h has been sent a termination signal, or its exit has already
\* been delivered so that there is nothing left to signal.
Signalled(h) == child[h].killed \/ child[h].st \in {"clog", "gone"}

\* C12: when a stop() that was called with a tracked handle returns, the
\* child that handle named has been sent the termination signal, no handle
\* is tracked and health monitoring is not running, whatever the state of
\* the start() that spawned the child.
C12_StopWithHandleTerminates ==
  [][StopReturns => /\ Signalled(stop.handle)
                    /\ nextJsProcess' = NoProcess
                    /\ ~mon'.isMonitoring]_vars


(***************************************************************************)
(* Recovery counters.                                                      *)
(***************************************************************************)
\* The step has appended one entry of this kind, type and outcome to the
\* record of what the error handler did.
Logged(kind, type, outcome) ==
  /\ Len(eh'.log) = Len(eh.log) + 1
  /\ eh'.log[Len(eh'.log)].kind = kind
  /\ eh'.log[Len(eh'.log)].type = type
  /\ eh'.log[Len(eh'.log)].outcome = outcome

\* A strategy of category t is started, a recovery of t has succeeded, the
\* counters are cleared.
AttemptStep(t) == Logged("attempt", t, "pending")
SuccessStep(t) == Logged("reset", t, "none")
ClearStep == Logged("clear", "none", "none")

\* The counters of the categories other than t are left alone.
OthersKept(t) ==
  \A u \in Categories \ {t} : eh'.recoveryAttempts[u] = eh.recoveryAttempts[u]

\* What C13 says of the range of the counters, of an attempted strategy,
\* of a successful recovery and of a clear.
CountersInRange == \A t \in Categories : eh.recoveryAttempts[t] \in 0..3

CounterSteps ==
  \A t \in Categories :
    /\ AttemptStep(t) => /\ eh'.recoveryAttempts[t] = eh.recoveryAttempts[t] + 1
                         /\ OthersKept(t)
    /\ SuccessStep(t) => /\ eh'.recoveryAttempts[t] = 0
                         /\ OthersKept(t)
    /\ eh.recoveryAttempts[t] = 3 => ~AttemptStep(t)
    /\ ClearStep => eh'.recoveryAttempts[t] = 0

\* C13 as stated: every counter stays within 0..3; an attempted strategy
\* adds one to its own counter only; a success sets its own counter to 0;
\* and a counter that has reached 3 stays there, its attempts refused,
\* until the counters are cleared.
C13_CountersBounded ==
  /\ []CountersInRange
  /\ [][/\ CounterSteps
        /\ \A t \in Categories :
             eh.recoveryAttempts[t] = 3
               => eh'.recoveryAttempts[t] = 3 \/ ClearStep]_vars

\* C13, amended: a counter that has reached 3 stays there, its attempts
\* refused, until the counters are cleared or a strategy of the category
\* that is still running succeeds.
C13_CountersBoundedUnlessReset ==
  /\ []CountersInRange
  /\ [][/\ CounterSteps
        /\ \A t \in Categories :
             eh.recoveryAttempts[t] = 3
               => \/ eh'.recoveryAttempts[t] = 3
                  \/ ClearStep
                  \/ SuccessStep(t)]_vars

\* A category has had three attempts, the counters were cleared, and a
\* further attempt of the category has been let through.
C13_CountersBoundedWitness ==
  \E t \in Categories : \E c \in 1..Len(eh.log) :
    /\ eh.log[c].kind = "clear"
    /\ Cardinality({m \in AttemptsOf(t) : m < c}) = 3
    /\ \E m \in AttemptsOf(t) : m > c /\ eh.log[m].outcome = "pending"
    /\ eh.recoveryAttempts[t] = 1


(***************************************************************************)
(* Classification.                                                         *)
(***************************************************************************)
\* An error has been classified.
Classified == call.op = "analyzeError" /\ call.done

\* The severity the specification fixes for each category.
SeverityOf(type) ==
  CASE type \in {"system", "configuration"} -> "critical"
    [] type \in {"server", "port"} -> "high"
    [] type \in {"network", "validation"} -> "medium"
    [] OTHER -> "low"

\* The error has none of the codes and its message, in lower case, none
\* of the keywords that the classification knows.
NoKnownCodeOrKeyword(error) ==
  /\ error.code \in {"none", "EPIPE"}
  /\ \A k \in {"port", "address", "invalid", "validation", "config",
               "setting", "server", "http"} :
       ~includes(toLowerCase(error.message), k)

\* What C14 says of the category and the severity.
CategoryAndSeverity ==
  /\ call.error.code = "EADDRINUSE"
       => call.info.type = "port" /\ call.info.severity = "high"
  /\ call.error.code = "EACCES"
       => /\ call.info.type = "system"
          /\ call.info.severity = "critical"
          /\ ~call.info.recoverable
  /\ NoKnownCodeOrKeyword(call.error)
       => call.info.type = "generic" /\ call.info.severity = "low"
  /\ call.info.type \in Categories
  /\ call.info.severity = SeverityOf(call.info.type)

\* C14 as stated: EADDRINUSE is port, high and recoverable; EACCES is
\* system, critical and not recoverable; an error with no known code or
\* keyword is generic and low; and the severity of every error is the one
\* fixed for its category.
C14_Classification ==
  Classified =>
    /\ CategoryAndSeverity
    /\ call.error.code = "EADDRINUSE" => call.info.recoverable

\* C14, amended: an EADDRINUSE error is recoverable exactly when its
\* message contains neither FATAL nor CRITICAL.
C14_ClassificationUnlessFatal ==
  Classified =>
    /\ CategoryAndSeverity
    /\ call.error.code = "EADDRINUSE"
         => (call.info.recoverable <=>
               /\ ~includes(call.error.message, "FATAL")
               /\ ~includes(call.error.message, "CRITICAL"))

\* An EADDRINUSE error whose message mentions the address has been
\* classified port, high and recoverable.
C14_ClassificationWitness ==
  /\ Classified
  /\ call.error.code = "EADDRINUSE"
  /\ call.error.message = <<"address">>
  /\ call.info.type = "port"
  /\ call.info.severity = "high"
  /\ call.info.recoverable


(***************************************************************************)
(* handleError.                                                            *)
(***************************************************************************)
\* The records analyzeError makes of the errors that are handled.
Analyzed == {analyzeError(error) : error \in InjectedErrors}

\* The step is a call of handleError.
HandleStep == eh'.errorsLeft = eh.errorsLeft - 1

\* A strategy is started by the step.
StrategyStarted == \E t \in Categories : AttemptStep(t)

\* The recovery counters and the configuration are left as they were.
RecoveryStateKept ==
  /\ eh'.recoveryAttempts = eh.recoveryAttempts
  /\ configPort' = configPort
  /\ cfg' = cfg

\* C15: handleError starts a recovery strategy only when shouldRecover is
\* true and the classified error is recoverable, and otherwise leaves the
\* recovery counters and the configuration alone; either way it adds the
\* error to the history once and emits 'error-occurred' once, and nothing
\* else does.
C15_RecoveryOnlyWhenAllowed ==
  [][/\ HandleStep
          => \A info \in Analyzed, shouldRecover \in BOOLEAN :
               HandleError(info.type, info.recoverable, shouldRecover)
                 => /\ eh'.recorded = eh.recorded + 1
                    /\ eh'.emitted = eh.emitted + 1
                    /\ StrategyStarted
                         => shouldRecover /\ info.recoverable
                    /\ ~(shouldRecover /\ info.recoverable)
                         => RecoveryStateKept
     /\ (eh'.recorded # eh.recorded \/ eh'.emitted # eh.emitted)
          => HandleStep]_vars

\* Two errors have been handled, one with a recovery strategy started and
\* one without, and each was recorded and reported once.
C15_RecoveryOnlyWhenAllowedWitness ==
  /\ eh.errorsLeft = MaxErrors - 2
  /\ Len(eh.log) = 1
  /\ eh.log[1].kind = "attempt"
  /\ eh.recorded = 2
  /\ eh.emitted = 2

\* C16: for an error classified generic, validation or system, handleError
\* marks the error not recoverable, counts no recovery attempt and leaves
\* the configuration alone.
C16_NoRecoveryForGenericValidationSystem ==
  [][HandleStep
       => \A info \in Analyzed, shouldRecover \in BOOLEAN :
            (/\ info.type \in {"generic", "validation", "system"}
             /\ HandleError(info.type, info.recoverable, shouldRecover))
              => /\ ~info.recoverable
                 /\ ~StrategyStarted
                 /\ RecoveryStateKept]_vars


(***************************************************************************)
(* The error history.                                                      *)
(***************************************************************************)
\* The records of h are ordered newest first.
NewestFirst(h) == \A i \in 1..(Len(h) - 1) : h[i] > h[i + 1]

\* The n most recent records of h, newest first.
MostRecent(h, n) == SubSeq(h, 1, n)

\* The step adds a record to the history; the step reads the history.
AddStep == call'.created = call.created + 1
GetStep == call'.reads = 1 /\ call'.created = call.created

\* C17: the history never holds more than 100 records and is ordered
\* newest first; a record added to a full history evicts exactly the
\* oldest one; getErrorHistory(limit), for a limit that is a count or left
\* out, returns the min(limit, size) most recent records in that order and
\* leaves the history as it was.
C17_HistoryBounded ==
  /\ [](call.op = "history"
          => /\ Len(call.errorHistory) <= 100
             /\ NewestFirst(call.errorHistory))
  /\ [][call.op = "history"
          => /\ AddStep
                  => /\ call'.errorHistory[1] = call'.created
                     /\ Tail(call'.errorHistory) =
                          IF Len(call.errorHistory) = 100
                          THEN MostRecent(call.errorHistory, 99)
                          ELSE call.errorHistory
             /\ GetStep
                  => /\ call'.errorHistory = call.errorHistory
                     /\ call'.got =
                          MostRecent(call.errorHistory,
                                     Min(call'.limit,
                                         Len(call.errorHistory)))]_vars

\* A record was added to a full history, the oldest record is gone, and
\* the default read has returned the 50 most recent records.
C17_HistoryBoundedWitness ==
  /\ call.op = "history"
  /\ call.created = 101
  /\ Len(call.errorHistory) = 100
  /\ call.errorHistory[1] = 101
  /\ call.errorHistory[100] = 2
  /\ call.reads = 1
  /\ call.limit = 50
  /\ Len(call.got) = 50
  /\ call.got[1] = 101


(***************************************************************************)
(* Alternative ports.                                                      *)
(***************************************************************************)
\* suggestAlternativePorts has been called and has settled.
Suggested == call.op = "suggestAlternativePorts" /\ call.done

\* Port p exists and a bind of it succeeds.
Free(p) == p \in 1..65535 /\ isPortAvailable(p)

\* C18: when the three ports above currentPort are free,
\* suggestAlternativePorts(currentPort, 3) returns exactly these three, in
\* ascending order, and so not currentPort.
C18_NextThreePorts ==
  (/\ Suggested
   /\ call.count = 3
   /\ \A d \in 1..3 : Free(call.currentPort + d))
    => /\ call.result.settled = "resolved"
       /\ call.result.value = <<call.currentPort + 1, call.currentPort + 2,
                                call.currentPort + 3>>
       /\ ~InSeq(call.result.value, call.currentPort)

\* The three ports above 8080 were free and have been returned.
C18_NextThreePortsWitness ==
  /\ Suggested
  /\ call.currentPort = 8080
  /\ call.count = 3
  /\ \A d \in 1..3 : Free(8080 + d)
  /\ call.result.value = <<8081, 8082, 8083>>

\* The free ports among the 50 above currentPort, and the number of them
\* that are below p.
FreeAbove(currentPort) == {q \in Scanned(currentPort) : Free(q)}
FreeBelow(currentPort, p) ==
  Cardinality({q \in FreeAbove(currentPort) : q < p})

\* The place of port p in the preference list (0: not in it).
PreferenceOf(p) ==
  IF p \in Preferred
  THEN CHOOSE i \in 1..Len(preferredPorts) : preferredPorts[i] = p
  ELSE 0

\* C19: for every currentPort and count suggestAlternativePorts returns a
\* list of at most count distinct ports, none of them currentPort, each
\* free and within 1..65535; the list begins with the lowest free ports
\* among the 50 above currentPort, in ascending order, and only when these
\* are fewer than count goes on with ports of the preference list, in the
\* order of that list.
C19_SuggestionsValid ==
  Suggested =>
    LET list == call.result.value
        found == Min(call.count, Cardinality(FreeAbove(call.currentPort)))
    IN /\ call.result.settled = "resolved"
       /\ Len(list) <= call.count
       /\ \A i, j \in 1..Len(list) : i # j => list[i] # list[j]
       /\ \A i \in 1..Len(list) :
            list[i] # call.currentPort /\ Free(list[i])
       /\ Len(list) >= found
       /\ \A i \in 1..found :
            /\ list[i] \in FreeAbove(call.currentPort)
            /\ FreeBelow(call.currentPort, list[i]) = i - 1
       /\ \A i \in (found + 1)..Len(list) :
            /\ list[i] \in Preferred
            /\ \A j \in (found + 1)..(i - 1) :
                 PreferenceOf(list[j]) < PreferenceOf(list[i])


(***************************************************************************)
(* The probe of a port.                                                    *)
(***************************************************************************)
\* C20: isPortAvailable completes with a boolean for every port, in and
\* out of 1..65535, held or privileged: true exactly when the bind
\* succeeded, after which the probe has released the port.
C20_ProbeTotal ==
  (call.op = "isPortAvailable" /\ call.pc = "done")
    => /\ call.result.settled = "resolved"
       /\ call.result.value \in BOOLEAN
       /\ call.result.value <=> call.bound
       /\ call.port \notin busy \/ ~call.bound


(***************************************************************************)
(* The health monitor.                                                     *)
(***************************************************************************)
\* The step is a call of startMonitoring.
MonitoringStarts == hc'.startsLeft = hc.startsLeft - 1

\* C21: when monitoring starts for a handle, the count of consecutive
\* failures, the request and error counts, the uptime and the last
\* response time are 0 and the poll interval is the initial one, whatever
\* was recorded for the handle before.
C21_SnapshotResetOnStart ==
  [][MonitoringStarts
       => /\ mon'.retryCount = 0
          /\ mon'.requestCount = 0
          /\ mon'.errorCount = 0
          /\ mon'.uptime = 0
          /\ mon'.responseTime = 0
          /\ mon'.healthCheckInterval = MonitorInit.healthCheckInterval]_vars


\* The step on which a failure handler finds the threshold reached and
\* emits 'server-unhealthy'.
ThresholdHandled == hc'.unhealthy = hc.unhealthy + 1

ProbeSucceeds == mon'.requestCount = mon.requestCount + 1

\* C25: a successful probe sets the count of consecutive failures to 0,
\* adds one to the request count and leaves the error count alone; with
\* the interval above the default of 5 s it sets the interval to 5 s and
\* replaces the poll timer the monitor holds by one of that period, so
\* that the timer the monitor holds always ticks at the poll interval.
C25_SuccessNormalises ==
  /\ [](mon.monitorInterval # 0
          => mon.monitorInterval = mon.healthCheckInterval)
  /\ [][ProbeSucceeds
          => /\ mon'.retryCount = 0
             /\ mon'.errorCount = mon.errorCount
             /\ mon'.healthCheckInterval =
                  Min(mon.healthCheckInterval, Ms(5000))
             /\ mon.monitorInterval # 0
                  => mon'.monitorInterval = mon'.healthCheckInterval
             /\ mon.monitorInterval = 0 => mon'.monitorInterval = 0]_vars

\* A probe has succeeded after a threshold crossing had backed the
\* interval off: the timer is back at 5 s and the failure count at 0.
C25_SuccessNormalisesWitness ==
  /\ hc.unhealthy > 0
  /\ mon.requestCount = 1
  /\ mon.errorCount >= 3
  /\ mon.retryCount = 0
  /\ mon.healthCheckInterval = Ms(5000)
  /\ mon.monitorInterval = Ms(5000)


\* The step of a call of stopMonitoring().
StopMonitoringCalled == hc'.stopsLeft = hc.stopsLeft - 1

\* C30: a call of stopMonitoring() while monitoring is off changes nothing
\* of the monitor and emits no 'monitoring-stopped' event; after any call
\* isMonitoring is false and monitorInterval is null.
C30_StopMonitoringIdempotent ==
  [][StopMonitoringCalled
       => /\ ~mon.isMonitoring
               => mon' = mon /\ hc'.stopped = hc.stopped
          /\ mon.isMonitoring => hc'.stopped = hc.stopped + 1
          /\ ~mon'.isMonitoring
          /\ mon'.monitorInterval = 0]_vars

\* Monitoring was started once and its poll timer created, and
\* stopMonitoring() was called twice: one event, no timer.
C30_StopMonitoringIdempotentWitness ==
  /\ hc.startsLeft = MaxMonitorStarts - 1
  /\ mon.warmups = 0
  /\ mon.healthCheckInterval = Ms(10000)
  /\ hc.stopsLeft = MaxMonitorStops - 2
  /\ hc.stopped = 1
  /\ ~mon.isMonitoring
  /\ mon.monitorInterval = 0


\* The warm-up timeouts fire in the order of the startMonitoring calls
\* that armed them (all wait 8 s), and a call of startMonitoring ends the
\* session before it.  With two or more timeouts pending, the one that
\* fires was armed by a session that was stopped during its warm-up.
StaleWarmupFires ==
  /\ mon.warmups >= 2
  /\ mon'.warmups = mon.warmups - 1

\* C29: the warm-up timeout of a monitoring session that was stopped
\* before the timeout fired creates no poll timer: it neither sets
\* monitorInterval nor leaves a timer running that no field refers to.
C29_NoTimerForStoppedSession ==
  [][StaleWarmupFires
       => /\ mon'.monitorInterval = mon.monitorInterval
          /\ mon'.leaked = mon.leaked]_vars


(***************************************************************************)
(* The reachability information.                                           *)
(***************************************************************************)
\* The first 16 bits of an address as a number, and the block of the
\* addresses that share their first bits (16 at most) with the address
\* base.
AddressPrefix(a) == a[1] * 256 + a[2]
InBlock(a, base, bits) ==
  AddressPrefix(a) \div 2^(16 - bits) = AddressPrefix(base) \div 2^(16 - bits)

\* 10.0.0.0/8, 172.16.0.0/12, 192.168.0.0/16 and 169.254.0.0/16
PrivateAddress(a) ==
  /\ Len(a) = 4
  /\ \/ InBlock(a, <<10, 0, 0, 0>>, 8)
     \/ InBlock(a, <<172, 16, 0, 0>>, 12)
     \/ InBlock(a, <<192, 168, 0, 0>>, 16)
     \/ InBlock(a, <<169, 254, 0, 0>>, 16)

NetInfoGiven == call.op = "getNetworkInfo" /\ call.pc = "done"

\* The entries of the list of access URLs that are of type network.
NetworkEntries ==
  {i \in 1..Len(call.result.accessUrls) :
     call.result.accessUrls[i].type = "network"}

MarkerDeclaresSuccess(a) ==
  /\ att[a].out = "fetch"
  /\ ~att[a].ready
  /\ att'[a].ready

\* C23: after a ready marker on stdout the start is declared successful
\* only when the HTTP check made after the grace delay has found the
\* server to answer on its port; with no answer the marker alone does not
\* make the start a success.
C23_MarkerNeedsConfirmation ==
  [][\A a \in Attempts :
       MarkerDeclaresSuccess(a) => Listening(att[a].outPort)]_vars


\* The stderr listener of the start() call a rejects the start in this
\* step.
StderrRejects(a) == att[a].why # "stderr" /\ att'[a].why = "stderr"

PortStrategyEnds(i) ==
  /\ eh.log[i].type = "port"
  /\ eh.log[i].outcome = "pending"
  /\ eh'.log[i].outcome # "pending"

\* The strategy that ends has moved the configuration from the port it
\* had read to a free port and has emitted one event that says so.
PortMoved(i) ==
  /\ eh'.log[i].outcome = "succeeded"
  /\ configPort' # eh.log[i].port
  /\ Free(configPort')
  /\ eh'.signals = Append(eh.signals,
                          [oldPort |-> eh.log[i].port,
                           newPort |-> configPort',
                           reason |-> "Port conflict resolution"])

\* The strategy that ends has failed and has changed nothing.
PortKept(i) ==
  /\ eh'.log[i].outcome = "failed"
  /\ configPort' = configPort
  /\ cfg' = cfg
  /\ eh'.signals = eh.signals

\* C27 as stated: the port recovery moves the configuration to a free
\* port above the port it had read, with one port-changed event (old
\* port, new port, reason), and succeeds; or it has found no port, and
\* fails with the configuration unchanged and no event.
C27_PortRecoveryMovesUp ==
  [][\A i \in 1..Len(eh.log) :
       PortStrategyEnds(i)
         => \/ PortMoved(i) /\ configPort' > eh.log[i].port
            \/ PortKept(i)]_vars

\* C27: the port recovery moves the configuration to a free port other
\* than the port it had read, with one port-changed event (old port, new
\* port, reason), and succeeds: to the lowest free port among the 50
\* above the old port, or, when none of these is free, to the first free
\* port of the preference list, which can be below the old port.  Or,
\* none of the 50 ports above being free, it has got no port, and fails
\* with the configuration unchanged and no event.
C27_PortRecoveryMovesUpOrPreferred ==
  [][\A i \in 1..Len(eh.log) :
       PortStrategyEnds(i)
         => LET above == FreeAbove(eh.log[i].port)
            IN \/ /\ PortMoved(i)
                  /\ above # {} =>
                       /\ configPort' \in above
                       /\ \A q \in above : configPort' <= q
                  /\ above = {} =>
                       /\ configPort' \in Preferred
                       /\ \A q \in Preferred :
                            (q # eh.log[i].port /\ Free(q))
                              => PreferenceOf(configPort') <= PreferenceOf(q)
               \/ /\ PortKept(i)
                  /\ above = {}]_vars

\* With the 50 ports above 8080 held, a port recovery has moved the
\* configuration down to port 3000 of the preference list.
C27_PortRecoveryMovesUpOrPreferredWitness ==
  /\ eh.signals = <<[oldPort |-> DefaultPort, newPort |-> 3000,
                     reason |-> "Port conflict resolution"]>>
  /\ configPort = 3000
  /\ \E i \in 1..Len(eh.log) :
        eh.log[i].type = "port" /\ eh.log[i].outcome = "succeeded"


(***************************************************************************)
(* The end of stop().                                                      *)
(***************************************************************************)
\* The probe of a stop() call returns in this step with an answer.
StopFindsAnswer == stop.pc = "probe" /\ stop'.pc = "none" /\ stop'.answered

\* A 3 s timer of stop() logs its entry in this step.
RecheckLogs(entry) ==
  /\ \/ stop'.after.timers = stop.after.timers - 1
        /\ stop'.after.recheck = "none"
     \/ stop.after.recheck = "fetch" /\ stop'.after.recheck = "none"
  /\ stop'.after.final = entry

\* C28: when the port still answers after the handle was dealt with,
\* stop() starts an attempt to terminate the process that owns the port;
\* every stop() schedules a later check of the port, which logs a warning
\* when a tracked server or an answer is found and logs the server as
\* stopped only with no handle tracked and no answer on the port.
C28_StopForcesAndRechecks ==
  /\ [][StopFindsAnswer
          => stop'.after.forced = stop.after.forced + 1]_vars
  /\ [][(stop.pc = "probe" /\ stop'.pc = "none")
          => stop'.after.timers = stop.after.timers + 1]_vars
  /\ [][RecheckLogs("stopped")
          => /\ nextJsProcess = NoProcess
             /\ stop.after.recheck = "fetch"]_vars


(***************************************************************************)
(* The exit of a child that is no longer tracked.                          *)
(***************************************************************************)
\* A step of the exit listener of the child of start() call a.
ExitListenerStep(a) ==
  /\ child[a].st \in {"dead", "clog"}
  /\ child'[a].st # child[a].st

\* The child of call a was given up by a startup timeout, and the handle
\* tracked now is that of the child of a later start(); both calls were
\* made with no start pending and no handle tracked.
NewerChildTracked(a) ==
  /\ att[a].why = "timeout"
  /\ ~att[a].overlap
  /\ nextJsProcess \notin {NoProcess, a}
  /\ ~att[nextJsProcess].overlap

\* C31: the exit listener of a child that a startup timeout has given up
\* neither clears the handle of a child started since nor stops the
\* monitoring that runs for it.
C31_StaleExitLeavesNewerChild ==
  [][\A a \in Attempts :
       (ExitListenerStep(a) /\ NewerChildTracked(a))
         => /\ nextJsProcess' = nextJsProcess
            /\ mon'.isMonitoring = mon.isMonitoring]_vars


(***************************************************************************)
(* The poll timers of the monitor.                                         *)
(***************************************************************************)
\* The interval timers that tick: the one monitorInterval refers to and
\* those no field refers to any more.
ActiveTimers == (IF mon.monitorInterval # 0 THEN 1 ELSE 0) + mon.leaked

\* C32: at most one poll timer ticks at any time, and none while
\* monitoring is stopped.
C32_OnePollTimer ==
  /\ ActiveTimers <= 1
  /\ ~mon.isMonitoring => ActiveTimers = 0


(***************************************************************************)
(* Probes that outlive their monitoring session.                           *)
(***************************************************************************)
\* A health check that was awaiting its answer gets it in this step.
ProbeCompletes == hc'.probes = hc.probes - 1

\* C33: while monitoring is stopped, the answer to a probe sent before
\* the stop changes nothing of the monitor (failure count, metrics,
\* interval, timer) and starts no failure handling, and no
\* 'server-unhealthy' event is emitted.
C33_StaleProbeIgnored ==
  /\ [][(~mon.isMonitoring /\ ProbeCompletes)
          => mon' = mon /\ hc'.warned = hc.warned]_vars
  /\ [][~mon.isMonitoring => hc'.unhealthy = hc.unhealthy]_vars


(***************************************************************************)
(* The flag isHealthy of the health snapshot.                              *)
(***************************************************************************)
\* C34: when 'server-unhealthy' is emitted the health snapshot reports
\* isHealthy false, and it goes on to do so until a probe succeeds or
\* monitoring is started anew.
C34_UnhealthyIsReported ==
  [][/\ ThresholdHandled => ~getPerformanceMetrics(mon').isHealthy
     /\ (/\ ~getPerformanceMetrics(mon).isHealthy
         /\ ~ProbeSucceeds
         /\ ~MonitoringStarts)
          => ~getPerformanceMetrics(mon').isHealthy]_vars

\* The child of the attempt a is the tracked one and it is running.
TrackedRunning(a) == nextJsProcess = a /\ child[a].st = "alive"

\* getStatus() is called.
StatusAsked == statusLeft' = statusLeft - 1

\* The readiness check of the attempt a sends its request.
ReadinessProbes(a) ==
  \/ att[a].pollChk # "fetch" /\ att'[a].pollChk = "fetch"
  \/ att[a].out # "fetch" /\ att'[a].out = "fetch"

\* C35: while a child is tracked and running, the port getStatus()
\* reports and the port the readiness check probes are the port the child
\* was spawned with, whatever has happened to the configured port since.
C35_PortsAreTheChildsPort ==
  [][\A a \in Attempts : TrackedRunning(a) =>
        /\ StatusAsked => status'.port = child[a].port
        /\ (ReadinessProbes(a) /\ att'[a].pollChk = "fetch")
              => att'[a].pollPort = child[a].port
        /\ (ReadinessProbes(a) /\ att'[a].out = "fetch")
              => att'[a].outPort = child[a].port]_vars

\* The child of the attempt a has been signalled by stop().
StoppedByUser(a) == child[a].killed

\* C36: a stop() of the user is not treated as a crash: once stop() has
\* signalled a child, no crashed signal has been emitted, no auto-restart
\* is scheduled and no start() has been made by the auto-restart.
C36_StopIsNoCrash ==
  (\E a \in Attempts : StoppedByUser(a))
    => crashed = 0 /\ restart.cooldowns = 0 /\ restart.started = {}

\* With auto-start on, a child declared started is stopped by the user,
\* and its exit listener has run to its end.
C36_StopIsNoCrashWitness ==
  \E a \in Attempts :
    /\ StoppedByUser(a)
    /\ att[a].ready
    /\ child[a].st = "gone"
    /\ stop.done
    /\ restart.autoStart
    /\ nextJsProcess = NoProcess

\* The start of the attempt a has failed and its child is not tracked.
StartupFailureCleared(a) ==
  att[a].why \in {"timeout", "stderr", "exit"} /\ nextJsProcess # a

\* C37: when the handle has been cleared on a startup-failure path, the
\* child has exited or has been sent a termination signal: no live child
\* runs untracked.
C37_NoLiveChildUntracked ==
  \A a \in Attempts :
    StartupFailureCleared(a) => child[a].st # "alive" \/ child[a].killed

\* C38: health monitoring is active only while a handle is tracked, and
\* the monitored port is the port of the tracked child.
C38_MonitoringHasHandle ==
  mon.isMonitoring
    => /\ nextJsProcess # NoProcess
       /\ mon.serverPort = child[nextJsProcess].port

\* C39: resetToDefault() restores the default port whatever set() calls
\* came before it, so that a get('server.port') right after a reset
\* returns 8080; and a second resetToDefault() right after a first leaves
\* the configuration as it is.
C39_ResetRestoresDefault ==
  /\ [][call'.op = "resetToDefault" => configPort' = DefaultPort]_vars
  /\ [][(call.op = "resetToDefault" /\ call'.op = "get")
          => call'.value = DefaultPort]_vars
  /\ [][(call.op = "resetToDefault" /\ call'.op = "resetToDefault")
          => configPort' = configPort /\ cfg' = cfg]_vars

====
